---- MODULE Spec2Model ----
(***************************************************************************)
(* Model of the code-sensei generation back end: the request handlers     *)
(* (Netlify, Vercel and Express variants), the retry wrapper               *)
(* fetchWithRetries around the call of the generation API, and the         *)
(* extraction of the html, css and js sections from the model's text,      *)
(* either between HTML_START/HTML_END style markers or from an embedded    *)
(* JSON object.                                                            *)
(*                                                                         *)
(* Text is a sequence of tokens.  A marker, a brace, a JSON string         *)
(* literal, a newline or a blank is one token, so that the regular         *)
(* expressions, indexOf/lastIndexOf, trim and JSON.parse of the source     *)
(* are computed position by position on the sequence.                      *)
(***************************************************************************)
EXTENDS Integers, Sequences, FiniteSets

VARIABLES
    variant,      \* the handler module that serves the request
    request,      \* the incoming request: method, body, isBase64Encoded
    apiKey,       \* whether process.env.GEMINI_API_KEY is set
    pc,           \* position of the handler
    state,        \* state of the model invoker
    i,            \* loop index of fetchWithRetries
    maxRetries,   \* argument of fetchWithRetries
    initialDelay, \* argument of fetchWithRetries
    calls,        \* number of invocations of apiCall for this request
    delays,       \* the delays waited so far, in order, in ms
    timer,        \* the delay of the pending setTimeout, 0 when none
    failures,     \* the messages of the failed attempts, in order
    caught,       \* the error in the catch block of the loop, NoError outside
    thrown,       \* the error the invoker threw, NoError when none
    returned,     \* the upstream response the invoker returned
    response      \* the HTTP response of the handler

vars == <<variant, request, apiKey, pc, state, i, maxRetries, initialDelay,
          calls, delays, timer, failures, caught, thrown, returned, response>>

\* The client: the PromptInput component in the browser.
VARIABLES
    component,    \* which PromptInput renders: its handler's name
    prompt,       \* state prompt of the component
    loading,      \* state loading of the component
    clientError,  \* state error of the component
    inFlight,     \* the prompts of the requests posted and not yet answered
    submits,      \* the submit actions of the user so far (clicks, Enter)
    dropped,      \* those of them made on a disabled control
    generated     \* what onCodeGenerated was last called with

clientVars == <<component, prompt, loading, clientError, inFlight, submits, dropped,
                generated>>

\* Several invocations of the retrying handler in one process.
VARIABLES
    inv,          \* per invocation: its request, position, calls, delays, response
    frames        \* the bindings of the loop index i of fetchWithRetries

poolVars == <<inv, frames>>

\* The client: the App component that holds the results and the history.
VARIABLES
    generatedCode, \* state generatedCode: html, css, js, fullText
    currentPrompt, \* state currentPrompt
    activeView,    \* state activeView
    history,       \* state history: items of prompt and code, newest first
    storage,       \* the entry 'sensei_history' of localStorage
    event,         \* the handler of App that ran last, and its argument
    generations    \* the calls of handleCodeGenerated so far

appVars == <<generatedCode, currentPrompt, activeView, history, storage, event,
             generations>>

allVars == <<vars, clientVars, poolVars, appVars>>

\* No page is open.
ClientIdle ==
    /\ component = "none"
    /\ prompt = <<>>
    /\ loading = FALSE
    /\ clientError = <<>>
    /\ inFlight = <<>>
    /\ submits = 0
    /\ dropped = 0
    /\ generated = "none"

\* No other invocation runs.
PoolIdle ==
    /\ inv = <<>>
    /\ frames = <<>>

\* useState({ html: '', css: '', js: '', fullText: '' })
EmptyCode == [html |-> "", css |-> "", js |-> "", fullText |-> ""]

\* No entry 'sensei_history': getItem returns null.
Absent == [kind |-> "absent", value |-> <<>>]

\* No handler of App has run.
NoEvent == [name |-> "none", prompt |-> <<>>, code |-> EmptyCode]

\* No page is open: App in the state of its useState calls.
AppIdle ==
    /\ generatedCode = EmptyCode
    /\ currentPrompt = <<>>
    /\ activeView = "preview"
    /\ history = <<>>
    /\ storage = Absent
    /\ event = NoEvent
    /\ generations = 0

-----------------------------------------------------------------------------
(* Strings                                                                 *)

\* What String.prototype.trim removes.
IsWhitespace(t) == t \in {" ", "\n"}

RECURSIVE TrimStart(_)
TrimStart(s) ==
    IF s # <<>> /\ IsWhitespace(Head(s)) THEN TrimStart(Tail(s)) ELSE s

RECURSIVE TrimEnd(_)
TrimEnd(s) ==
    IF s # <<>> /\ IsWhitespace(s[Len(s)])
    THEN TrimEnd(SubSeq(s, 1, Len(s) - 1))
    ELSE s

\* Mutant: nothing is trimmed.
TrimNothing(s) == s

\* String.prototype.trim
Trim(s) == TrimEnd(TrimStart(s))

\* String.prototype.indexOf for a one-token needle; 0 stands for -1.
IndexOf(s, t) ==
    IF \E p \in 1..Len(s) : s[p] = t
    THEN CHOOSE p \in 1..Len(s) : s[p] = t /\ \A q \in 1..(p - 1) : s[q] # t
    ELSE 0

\* String.prototype.lastIndexOf for a one-token needle; 0 stands for -1.
LastIndexOf(s, t) ==
    IF \E p \in 1..Len(s) : s[p] = t
    THEN CHOOSE p \in 1..Len(s) : s[p] = t /\ \A q \in (p + 1)..Len(s) : s[q] # t
    ELSE 0

\* String.prototype.includes for a one-token needle.
Includes(s, t) == \E p \in 1..Len(s) : s[p] = t

RECURSIVE Pow2(_)
\* Math.pow(2, n)
Pow2(n) == IF n <= 0 THEN 1 ELSE 2 * Pow2(n - 1)

-----------------------------------------------------------------------------
(* The marker regular expressions                                          *)

\* Mutant: the expression is anchored, /^START\n([\s\S]*?)\nEND/.
MatchStartsAnchored(text, start, end) ==
    {p \in {1} \cap (1..Len(text)) :
        /\ text[p] = start
        /\ p + 1 <= Len(text)
        /\ text[p + 1] = "\n"
        /\ \E q \in (p + 2)..(Len(text) - 1) :
              text[q] = "\n" /\ text[q + 1] = end}

\* The positions where /START\n([\s\S]*?)\nEND/ can match: START, a newline,
\* and later a newline followed by END.
MatchStarts(text, start, end) ==
    {p \in 1..Len(text) :
        /\ text[p] = start
        /\ p + 1 <= Len(text)
        /\ text[p + 1] = "\n"
        /\ \E q \in (p + 2)..(Len(text) - 1) :
              text[q] = "\n" /\ text[q + 1] = end}

\* Where the lazy group of a match starting at p stops: the first newline
\* followed by END after the newline that follows START.
GroupEnd(text, p, end) ==
    CHOOSE q \in (p + 2)..(Len(text) - 1) :
        /\ text[q] = "\n" /\ text[q + 1] = end
        /\ \A r \in (p + 2)..(q - 1) : ~(text[r] = "\n" /\ text[r + 1] = end)

\* text.match(/START\n([\s\S]*?)\nEND/): the leftmost match; group is
\* match[1]. matched = FALSE stands for a null result.
MarkerMatch(text, start, end) ==
    LET starts == MatchStarts(text, start, end) IN
    IF starts = {}
    THEN [matched |-> FALSE, group |-> <<>>]
    ELSE LET p == CHOOSE x \in starts : \A y \in starts : x <= y
         IN  [matched |-> TRUE,
              group |-> SubSeq(text, p + 2, GroupEnd(text, p, end) - 1)]

\* Mutant: the group is returned as captured, without trim().
TrimmedGroupUntrimmed(m) == IF m.matched /\ m.group # <<>> THEN m.group ELSE <<>>

\* match[1].trim() of a match with a group that is not empty.
TrimmedGroup(m) == IF m.matched /\ m.group # <<>> THEN Trim(m.group) ELSE <<>>

\* match && match[1] ? match[1].trim() : ''   (and the form without the
\* match[1] test, which gives the same string: '' trimmed is '').
Section(text, start, end) == TrimmedGroup(MarkerMatch(text, start, end))

-----------------------------------------------------------------------------
(* JavaScript values and JSON.parse                                        *)

\* A value: its type t, its text s (strings, numbers, booleans) and its
\* members m (objects, arrays), each member a key k and a value v.
Str(s) == [t |-> "string", s |-> s, m |-> <<>>]
Num(tok) == [t |-> "number", s |-> <<tok>>, m |-> <<>>]
Bool(tok) == [t |-> "boolean", s |-> <<tok>>, m |-> <<>>]
Null == [t |-> "null", s |-> <<>>, m |-> <<>>]
Undefined == [t |-> "undefined", s |-> <<>>, m |-> <<>>]
Obj(members) == [t |-> "object", s |-> <<>>, m |-> members]
Arr(members) == [t |-> "array", s |-> <<>>, m |-> members]

\* The JSON string literals of the model and the strings they denote.
StringLiterals ==
    {"\"html\"", "\"css\"", "\"js\"", "\"prompt\"", "\"a\"", "\"b\"", "\"c\"", "\"\""}

LiteralValue(tok) ==
    CASE tok = "\"html\"" -> <<"html">>
      [] tok = "\"css\"" -> <<"css">>
      [] tok = "\"js\"" -> <<"js">>
      [] tok = "\"prompt\"" -> <<"prompt">>
      [] tok = "\"a\"" -> <<"a">>
      [] tok = "\"b\"" -> <<"b">>
      [] tok = "\"c\"" -> <<"c">>
      [] OTHER -> <<>>

NumberLiterals == {"0", "5"}

RECURSIVE SkipWs(_, _)
\* The first position at or after p that holds no JSON whitespace.
SkipWs(s, p) ==
    IF p <= Len(s) /\ IsWhitespace(s[p]) THEN SkipWs(s, p + 1) ELSE p

ParseFail == [ok |-> FALSE, v |-> Undefined, next |-> 0]
ParseOk(v, next) == [ok |-> TRUE, v |-> v, next |-> next]

RECURSIVE ParseValue(_, _)
RECURSIVE ParseMembers(_, _, _, _)
RECURSIVE ParseElements(_, _, _, _)

\* One JSON value at position q, which holds no whitespace.
ValueAt(s, q) ==
    IF q > Len(s) THEN ParseFail
    ELSE CASE s[q] \in StringLiterals -> ParseOk(Str(LiteralValue(s[q])), q + 1)
           [] s[q] \in NumberLiterals -> ParseOk(Num(s[q]), q + 1)
           [] s[q] \in {"true", "false"} -> ParseOk(Bool(s[q]), q + 1)
           [] s[q] = "null" -> ParseOk(Null, q + 1)
           [] s[q] = "{" -> ParseMembers(s, q + 1, <<>>, TRUE)
           [] s[q] = "[" -> ParseElements(s, q + 1, <<>>, TRUE)
           [] OTHER -> ParseFail

\* One JSON value starting at or after position p.
ParseValue(s, p) == ValueAt(s, SkipWs(s, p))

\* After a member: a closing brace at e ends the object, a comma goes on.
MemberEnd(s, e, acc) ==
    IF e > Len(s) THEN ParseFail
    ELSE IF s[e] = "}" THEN ParseOk(Obj(acc), e + 1)
    ELSE IF s[e] = "," THEN ParseMembers(s, e + 1, acc, FALSE)
    ELSE ParseFail

\* The member whose key is at q and whose value parsed as r.
Member(s, q, r, acc) ==
    IF ~r.ok THEN ParseFail
    ELSE MemberEnd(s, SkipWs(s, r.next),
                   Append(acc, [k |-> LiteralValue(s[q]), v |-> r.v]))

\* The colon at c after the key at q, and the value of the member.
MemberColon(s, q, c, acc) ==
    IF c > Len(s) \/ s[c] # ":" THEN ParseFail
    ELSE Member(s, q, ParseValue(s, c + 1), acc)

\* A member, or the closing brace of an empty object, at q.
MembersAt(s, q, acc, first) ==
    IF q > Len(s) THEN ParseFail
    ELSE IF first /\ s[q] = "}" THEN ParseOk(Obj(acc), q + 1)
    ELSE IF s[q] \notin StringLiterals THEN ParseFail
    ELSE MemberColon(s, q, SkipWs(s, q + 1), acc)

\* The members of an object after its opening brace, up to its closing one.
ParseMembers(s, p, acc, first) == MembersAt(s, SkipWs(s, p), acc, first)

\* After an element: a closing bracket at e ends the array, a comma goes on.
ElementEnd(s, e, acc) ==
    IF e > Len(s) THEN ParseFail
    ELSE IF s[e] = "]" THEN ParseOk(Arr(acc), e + 1)
    ELSE IF s[e] = "," THEN ParseElements(s, e + 1, acc, FALSE)
    ELSE ParseFail

\* The element that parsed as r.
Element(s, r, acc) ==
    IF ~r.ok THEN ParseFail
    ELSE ElementEnd(s, SkipWs(s, r.next), Append(acc, [k |-> <<>>, v |-> r.v]))

\* An element, or the closing bracket of an empty array, at q.
ElementsAt(s, q, acc, first) ==
    IF q > Len(s) THEN ParseFail
    ELSE IF first /\ s[q] = "]" THEN ParseOk(Arr(acc), q + 1)
    ELSE Element(s, ParseValue(s, q), acc)

\* The elements of an array after its opening bracket, up to its closing one.
ParseElements(s, p, acc, first) == ElementsAt(s, SkipWs(s, p), acc, first)

\* The whole text must be one value: only whitespace may follow it.
WholeValue(s, r) ==
    IF r.ok /\ SkipWs(s, r.next) > Len(s)
    THEN [ok |-> TRUE, v |-> r.v]
    ELSE [ok |-> FALSE, v |-> Undefined]

\* JSON.parse(s): ok = FALSE stands for a thrown SyntaxError.
JSONParse(s) == WholeValue(s, ParseValue(s, 1))

\* Whether reading a property of v throws a TypeError.
PropertyThrows(v) == v.t \in {"null", "undefined"}

\* v[key] for a key none of the built-in prototypes define.
Property(v, key) ==
    IF v.t = "object" /\ \E n \in 1..Len(v.m) : v.m[n].k = key
    THEN LET n == CHOOSE x \in 1..Len(v.m) :
                     v.m[x].k = key /\ \A y \in (x + 1)..Len(v.m) : v.m[y].k # key
         IN  v.m[n].v
    ELSE Undefined

\* ToBoolean
Truthy(v) ==
    CASE v.t = "string" -> v.s # <<>>
      [] v.t = "number" -> v.s # <<"0">>
      [] v.t = "boolean" -> v.s = <<"true">>
      [] v.t \in {"null", "undefined"} -> FALSE
      [] OTHER -> TRUE

\* v || ''
OrEmpty(v) == IF Truthy(v) THEN v ELSE Str(<<>>)

\* String(v) of a value given where a string is expected, as JSON.parse does
\* with its argument.
JsString(v) ==
    CASE v.t \in {"string", "number", "boolean"} -> v.s
      [] v.t = "null" -> <<"null">>
      [] v.t = "undefined" -> <<"undefined">>
      [] v.t = "object" -> <<"[", "object", " ", "Object", "]">>
      [] OTHER -> <<>>   \* the empty array

-----------------------------------------------------------------------------
(* Handler variants                                                        *)

\* The handler modules of the repository.
Variants ==
    {"api_generate",      \* src/api/generate.js: markers, direct call
     "netlify_backoff",   \* src/unnamed/part_002, first module: markers, retries
     "vercel",            \* src/unnamed/part_002, second module: markers, direct call
     "netlify_timeout",   \* src/unnamed/part_001, first module: markers, retries
     "netlify_basic",     \* src/unnamed/part_001, second module: markers, direct call
     "netlify_single",    \* src/unnamed/part_000: markers, one attempt
     "express",           \* src/server/index.js, first module: markers, direct call
     "netlify_json"}      \* src/server/index.js, second module: embedded JSON

\* The platform that delivers the request to the handler.
Platform(v) ==
    CASE v = "vercel" -> "vercel"
      [] v = "express" -> "express"
      [] OTHER -> "netlify"

\* How the handler invokes the generation API: through the fetchWithRetries
\* loop, through the one-attempt fetchWithRetries, or with a bare await.
Invoker(v) ==
    CASE v \in {"netlify_backoff", "netlify_timeout"} -> "backoff"
      [] v = "netlify_single" -> "single"
      [] OTHER -> "direct"

\* Whether the handler reads the text with response.text() (a call that
\* throws for a blocked response) or as the property response.text.
CallsTextMethod(v) == v \in {"vercel", "netlify_basic", "express"}

MAX_RETRIES == 3

INITIAL_DELAY_MS == 1000

-----------------------------------------------------------------------------
(* Responses                                                               *)

\* A response: the status code, the kind of body ("json", "text" for the
\* body 'OK', "none" for an ended response without body, "pending" while
\* the handler has not answered), the keys of a JSON body and their values.
Respond(status, kind, keys, error, html, css, js, text) ==
    [status |-> status, kind |-> kind, keys |-> keys, error |-> error,
     html |-> html, css |-> css, js |-> js, text |-> text]

Pending == Respond(0, "pending", {}, <<>>, Undefined, Undefined, Undefined, <<>>)

\* { statusCode, headers, body: JSON.stringify({ error }) }
ErrorResponse(status, keys, error) ==
    Respond(status, "json", keys, error, Undefined, Undefined, Undefined, <<>>)

\* { statusCode: 200, headers, body: JSON.stringify({ html, css, js, text }) }
CodeResponse(keys, html, css, js, text) ==
    Respond(200, "json", keys, <<>>, html, css, js, text)

-----------------------------------------------------------------------------
(* Validation of the request                                               *)

\* Base64 of a string: the encoded form carries a tag, and decoding text
\* that is no Base64 yields bytes that are no JSON.
Base64Encode(s) == <<"base64">> \o s

\* Buffer.from(s, 'base64').toString('utf8')
Base64Decode(s) ==
    IF s # <<>> /\ Head(s) = "base64" THEN Tail(s) ELSE <<"\\uFFFD">>

Proceed == [done |-> FALSE, response |-> Pending]
Answer(r) == [done |-> TRUE, response |-> r]

\* requestBody.prompt of the parsed body. ok = FALSE stands for a thrown
\* error: the SyntaxError of JSON.parse or the TypeError of the property.
PromptOf(parsed) ==
    IF ~parsed.ok \/ PropertyThrows(parsed.v)
    THEN [ok |-> FALSE, prompt |-> Undefined]
    ELSE [ok |-> TRUE, prompt |-> Property(parsed.v, <<"prompt">>)]

\* The body of the try block that reads the prompt: JSON.parse of the body
\* string and requestBody.prompt.
ReadPrompt(bodyString) == PromptOf(JSONParse(bodyString))

\* Mutant: the API key is checked before the prompt.
CheckPromptKeyFirst(read, key, invalidJson, keyMissing) ==
    IF ~read.ok
    THEN Answer(ErrorResponse(400, {"error"}, <<invalidJson>>))
    ELSE IF ~key
    THEN Answer(ErrorResponse(500, {"error"}, <<keyMissing>>))
    ELSE IF ~Truthy(read.prompt)
    THEN Answer(ErrorResponse(400, {"error"}, <<"Prompt is required.">>))
    ELSE Proceed

\* The checks that follow the reading of the prompt.
CheckPrompt(read, key, invalidJson, keyMissing) ==
    IF ~read.ok
    THEN Answer(ErrorResponse(400, {"error"}, <<invalidJson>>))
    ELSE IF ~Truthy(read.prompt)
    THEN Answer(ErrorResponse(400, {"error"}, <<"Prompt is required.">>))
    ELSE IF ~key
    THEN Answer(ErrorResponse(500, {"error"}, <<keyMissing>>))
    ELSE Proceed

\* Mutant: the body is read before the method is looked at.
NetlifyValidationBodyFirst(req, key) ==
    IF ~Truthy(req.body)
    THEN Answer(ErrorResponse(400, {"error"}, <<"Request body is missing.">>))
    ELSE IF req.method = "OPTIONS"
    THEN Answer(Respond(200, "text", {}, <<>>, Undefined, Undefined, Undefined, <<"OK">>))
    ELSE IF req.method # "POST"
    THEN Answer(ErrorResponse(405, {"error"}, <<"Method Not Allowed">>))
    ELSE CheckPrompt(ReadPrompt(IF req.isBase64Encoded
                                THEN Base64Decode(req.body.s)
                                ELSE req.body.s),
                     key, "Invalid JSON in request body.",
                     "Server configuration error: API Key missing.")

\* The Netlify handlers up to the call of the API.
NetlifyValidation(req, key) ==
    IF req.method = "OPTIONS"
    THEN Answer(Respond(200, "text", {}, <<>>, Undefined, Undefined, Undefined, <<"OK">>))
    ELSE IF req.method # "POST"
    THEN Answer(ErrorResponse(405, {"error"}, <<"Method Not Allowed">>))
    ELSE IF ~Truthy(req.body)
    THEN Answer(ErrorResponse(400, {"error"}, <<"Request body is missing.">>))
    ELSE CheckPrompt(ReadPrompt(IF req.isBase64Encoded
                                THEN Base64Decode(req.body.s)
                                ELSE req.body.s),
                     key, "Invalid JSON in request body.",
                     "Server configuration error: API Key missing.")

\* The Vercel handler up to the call of the API.
VercelValidation(req, key) ==
    IF req.method = "OPTIONS"
    THEN Answer(Respond(200, "none", {}, <<>>, Undefined, Undefined, Undefined, <<>>))
    ELSE IF req.method # "POST"
    THEN Answer(ErrorResponse(405, {"error"}, <<"Method Not Allowed">>))
    ELSE CheckPrompt(ReadPrompt(JsString(req.body)), key, "Invalid JSON body.",
                     "Server API key not configured. Please set GEMINI_API_KEY environment variable.")

\* What is left of a request whose handler threw: no response of its own.
Escaped == Respond(0, "escaped", {}, <<>>, Undefined, Undefined, Undefined, <<>>)

\* The Express route up to the call of the API. The destructuring of
\* req.body stands outside every try block.
ExpressValidation(req, key) ==
    IF PropertyThrows(req.body)
    THEN Answer(Escaped)
    ELSE IF ~Truthy(Property(req.body, <<"prompt">>))
    THEN Answer(ErrorResponse(400, {"error"}, <<"Prompt is required.">>))
    ELSE IF ~key
    THEN Answer(ErrorResponse(500, {"error"}, <<"Server API key not configured.">>))
    ELSE Proceed

Validation(v, req, key) ==
    CASE Platform(v) = "vercel" -> VercelValidation(req, key)
      [] Platform(v) = "express" -> ExpressValidation(req, key)
      [] OTHER -> NetlifyValidation(req, key)

-----------------------------------------------------------------------------
(* Extraction of the code sections                                         *)

\* A thrown error: its message, and the attempt of the API call that threw
\* it (0 for an error thrown by the handler itself).
Error(message, attempt) == [message |-> message, attempt |-> attempt]

NoError == Error(<<>>, 0)

Extracted(html, css, js) ==
    [ok |-> TRUE, html |-> html, css |-> css, js |-> js, error |-> NoError]

ExtractionThrows(message) ==
    [ok |-> FALSE, html |-> Undefined, css |-> Undefined, js |-> Undefined,
     error |-> Error(message, 0)]

\* Mutant: without an HTML section nothing is extracted.
MarkerExtractionHtmlFirst(text) ==
    IF MarkerMatch(text, "HTML_START", "HTML_END").matched
    THEN Extracted(Str(Section(text, "HTML_START", "HTML_END")),
                   Str(Section(text, "CSS_START", "CSS_END")),
                   Str(Section(text, "JS_START", "JS_END")))
    ELSE Extracted(Str(<<>>), Str(<<>>), Str(<<>>))

\* The three matches of the marker handlers and the strings they give.
MarkerExtraction(text) ==
    Extracted(Str(Section(text, "HTML_START", "HTML_END")),
              Str(Section(text, "CSS_START", "CSS_END")),
              Str(Section(text, "JS_START", "JS_END")))

\* The number of characters of a token.
CharLen(t) ==
    CASE t \in {"HTML_START", "overloaded", "ECONNRESET"} -> 10
      [] t \in {"CSS_START", "undefined"} -> 9
      [] t \in {"HTML_END", "JS_START"} -> 8
      [] t \in {"CSS_END", "timeout"} -> 7
      [] t \in {"JS_END", "\"html\"", "object", "Object", "base64"} -> 6
      [] t \in {"\"css\"", "JSON:", "false"} -> 5
      [] t \in {"\"js\"", "null", "true"} -> 4
      [] t \in {"\"a\"", "\"b\"", "\"c\"", "503", "504", "400"} -> 3
      [] t = "\"\"" -> 2
      [] t = "\"prompt\"" -> 8
      [] t = "API key not valid" -> 17
      [] t = "SyntaxError" -> 11
      [] t = "Failed to parse JSON response: " -> 31
      [] t = ". Raw text: " -> 12
      [] t = "..." -> 3
      [] t = "Model response was empty or blocked. Safety details: " -> 54
      [] t = "Cannot read properties of null (reading 'html')" -> 47
      [] t = "x*100" -> 100   \* a run of one hundred characters
      [] OTHER -> 1

RECURSIVE Substring(_, _)
\* s.substring(0, n), n counted in characters. A token the cut falls into
\* leaves a proper prefix of itself, written "<cut>".
Substring(s, n) ==
    IF s = <<>> \/ n <= 0 THEN <<>>
    ELSE IF CharLen(Head(s)) <= n
    THEN <<Head(s)>> \o Substring(Tail(s), n - CharLen(Head(s)))
    ELSE <<"<cut>">>

\* Mutant: the text is parsed whole, without the slice.
JsonTextWhole(text) == text

\* The slice between the first '{' and the last '}', or the whole text.
JsonText(text) ==
    LET firstBrace == IndexOf(text, "{")
        lastBrace == LastIndexOf(text, "}")
    IN  IF firstBrace # 0 /\ lastBrace # 0 /\ lastBrace > firstBrace
        THEN SubSeq(text, firstBrace, lastBrace)
        ELSE text

\* Mutant: a failed parse is swallowed and gives empty sections.
FromParsedLenient(jsonText, parsed) ==
    IF ~parsed.ok \/ PropertyThrows(parsed.v)
    THEN Extracted(Str(<<>>), Str(<<>>), Str(<<>>))
    ELSE Extracted(OrEmpty(Property(parsed.v, <<"html">>)),
                   OrEmpty(Property(parsed.v, <<"css">>)),
                   OrEmpty(Property(parsed.v, <<"js">>)))

\* html, css and js of the parsed object, or the error of a failed parse.
FromParsed(jsonText, parsed) ==
    IF ~parsed.ok
    THEN ExtractionThrows(<<"Failed to parse JSON response: ", "SyntaxError",
                            ". Raw text: ">> \o Substring(jsonText, 100) \o <<"...">>)
    ELSE IF PropertyThrows(parsed.v)
    THEN ExtractionThrows(<<"Cannot read properties of null (reading 'html')">>)
    ELSE Extracted(OrEmpty(Property(parsed.v, <<"html">>)),
                   OrEmpty(Property(parsed.v, <<"css">>)),
                   OrEmpty(Property(parsed.v, <<"js">>)))

\* JSON.parse of the slice.
ParseSlice(jsonText) == FromParsed(jsonText, JSONParse(jsonText))

\* The JSON handler from the trimmed text to html, css and js.
JsonExtraction(text) == ParseSlice(JsonText(text))

\* What the generation API resolves with: result.response, whose text may
\* be missing (an empty or blocked candidate). defined = FALSE is the
\* undefined that fetchWithRetries returns when its loop runs no iteration.
\* attempt is the call that resolved with it.
Result(text, attempt) ==
    [defined |-> TRUE, blocked |-> FALSE, text |-> text, attempt |-> attempt]
BlockedResult(attempt) ==
    [defined |-> TRUE, blocked |-> TRUE, text |-> <<>>, attempt |-> attempt]
UndefinedResult == [defined |-> FALSE, blocked |-> TRUE, text |-> <<>>, attempt |-> 0]

\* The keys of the body of a 200 response.
CodeKeys(v) ==
    IF v \in {"vercel", "express"}
    THEN {"html", "css", "js", "fullText"}
    ELSE {"html", "css", "js", "text"}

\* The outcome of a try block: ok with the 200 response, or the error thrown.
Done(r) == [ok |-> TRUE, response |-> r, error |-> NoError]
Throw(e) == [ok |-> FALSE, response |-> Pending, error |-> e]

\* The return statement of the try block, reached unless extraction threw.
Return200(v, text, x) ==
    IF x.ok
    THEN Done(CodeResponse(CodeKeys(v), x.html, x.css, x.js, text))
    ELSE Throw(x.error)

\* The extraction of the handler applied to the text it read.
Extract(v, text) ==
    Return200(v, text, IF v = "netlify_json" THEN JsonExtraction(text)
                                             ELSE MarkerExtraction(text))

\* The try block of a handler after the API call returned: ok with the 200
\* response, or the error thrown inside the block.
OnResult(v, result) ==
    IF ~result.defined
    THEN Throw(Error(<<"Cannot read properties of undefined (reading 'response')">>, 0))
    ELSE IF CallsTextMethod(v)
    THEN IF result.blocked
         THEN Throw(Error(<<"Text not available. Response was blocked">>, 0))
         ELSE Extract(v, result.text)
    ELSE IF result.blocked \/ result.text = <<>>
    THEN Throw(Error(<<"Model response was empty or blocked. Safety details: ",
                       "undefined">>, 0))
    ELSE Extract(v, Trim(result.text))

-----------------------------------------------------------------------------
(* The catch block of the handlers                                         *)

GenericFailure == "Failed to generate code from Gemini API."

ShortenGuidance ==
    "Generation request timed out (Netlify 10-second limit exceeded). Please try a shorter or simpler prompt, like \"A blue button.\""

SignificantlyShortenGuidance ==
    "Generation request timed out (Netlify 10-second limit exceeded). Please try a significantly shorter or simpler prompt, or check Netlify function logs."

\* errorMessage of the catch block (the error objects of the model carry
\* no response property).
ErrorMessage(v, message) ==
    CASE v \in {"api_generate", "netlify_backoff"} ->
            IF message # <<>>
            THEN <<GenericFailure, " Details: ">> \o Substring(message, 300) \o <<".">>
            ELSE <<GenericFailure>>
      [] v = "netlify_timeout" ->
            IF message # <<>> /\ (Includes(message, "504") \/ Includes(message, "timeout"))
            THEN <<SignificantlyShortenGuidance>>
            ELSE IF message # <<>>
            THEN <<GenericFailure, " Details: ">> \o Substring(message, 300) \o <<".">>
            ELSE <<GenericFailure>>
      [] v \in {"netlify_single", "netlify_json"} ->
            IF message # <<>> /\ (\/ Includes(message, "504")
                                  \/ Includes(message, "timeout")
                                  \/ Includes(message, "ECONNRESET"))
            THEN <<ShortenGuidance>>
            ELSE IF message # <<>>
            THEN <<GenericFailure, " Details: ">> \o Substring(message, 300) \o <<".">>
            ELSE <<GenericFailure>>
      [] v = "netlify_basic" ->
            IF message # <<>>
            THEN <<GenericFailure, " Details: ">> \o message \o <<".">>
            ELSE <<GenericFailure>>
      [] v = "vercel" ->
            IF message # <<>>
            THEN <<GenericFailure, " Details: ">> \o message
            ELSE <<GenericFailure>>
      [] OTHER -> <<GenericFailure>>   \* express

\* The keys of the body of the 500 response of the catch block.
ErrorKeys(v) ==
    CASE v = "netlify_basic" -> {"error"}
      [] v \in {"vercel", "express"} -> {"error", "details"}
      [] OTHER -> {"error", "fullError"}

\* The 500 response of the catch block for a caught error.
ReportError(v, err) == ErrorResponse(500, ErrorKeys(v), ErrorMessage(v, err.message))

\* Mutant: no catch block, what the try block throws leaves the handler.
SettleUncaught(v, r) == IF r.ok THEN r.response ELSE Escaped

\* The response of the try block, or of the catch block for what it threw.
Settle(v, r) == IF r.ok THEN r.response ELSE ReportError(v, r.error)

\* The handler from the settled API call to its response.
Complete(v, result) == Settle(v, OnResult(v, result))

-----------------------------------------------------------------------------
(* fetchWithRetries                                                        *)

\* The bound of the loop the handler runs the call in.
Attempts(v) ==
    CASE Invoker(v) = "backoff" -> MAX_RETRIES
      [] OTHER -> 1

\* Mutant: the comparison is off by one, i === maxRetries.
IsLastAttemptOffByOne(index, bound) == index = bound

\* Mutant: no failed attempt is taken for the last one.
IsLastAttemptNever(index, bound) == FALSE

\* Mutant: every failed attempt is taken for the last one.
IsLastAttemptAlways(index, bound) == TRUE

\* i === maxRetries - 1: the attempt that failed was the last one.
IsLastAttempt(index, bound) == index = bound - 1

\* Mutant: the delay does not grow, initialDelay.
DelayFixed(initial, index) == initial

\* initialDelay * Math.pow(2, i)
Delay(initial, index) == initial * Pow2(index)

\* Mutant: the loop index does not advance.
NextIndexStuck(index) == index

\* i++
NextIndex(index) == index + 1

-----------------------------------------------------------------------------
(* Inputs                                                                  *)

MaxLines == 2

Methods == {"POST", "OPTIONS", "GET"}

\* The JSON texts a client sends as the body of the request.
BodyStrings ==
    {<<"{", "\"prompt\"", ":", "\"a\"", "}">>,
     <<"{", "\"prompt\"", ":", "5", "}">>,
     <<"{", "\"prompt\"", ":", "\"\"", "}">>,
     <<"{", "}">>,
     <<"{", "\"prompt\"">>,
     <<"null">>,
     <<>>}

\* The bodies that arrive Base64 encoded.
Base64Bodies ==
    {<<"{", "\"prompt\"", ":", "\"a\"", "}">>,
     <<"{", "\"prompt\"">>,
     <<"{", "}">>}

\* The bodies express.json() and the Vercel body helper hand over: objects.
ParsedBodies ==
    {JSONParse(b).v : b \in {x \in BodyStrings : JSONParse(x).ok /\ JSONParse(x).v.t = "object"}}

\* event of a Netlify function, req of the Vercel function and of the
\* Express route (which the router enters for POST only).
Requests(v) ==
    CASE Platform(v) = "netlify" ->
            {[method |-> m, body |-> Null, isBase64Encoded |-> FALSE] : m \in Methods}
            \cup {[method |-> m, body |-> Str(b), isBase64Encoded |-> FALSE] :
                     m \in Methods, b \in BodyStrings}
            \cup {[method |-> m, body |-> Str(Base64Encode(b)), isBase64Encoded |-> TRUE] :
                     m \in Methods, b \in Base64Bodies}
      [] Platform(v) = "vercel" ->
            {[method |-> m, body |-> b, isBase64Encoded |-> FALSE] :
                     m \in Methods,
                     b \in {Undefined} \cup {Str(x) : x \in BodyStrings} \cup ParsedBodies}
      [] OTHER ->
            {[method |-> "POST", body |-> b, isBase64Encoded |-> FALSE] : b \in ParsedBodies}

\* The messages of the errors the generation API rejects with.
ErrorMessages ==
    {<<"503", " ", "overloaded">>,
     <<"504", " ", "timeout">>,
     <<"ECONNRESET">>,
     <<"400", " ", "API key not valid">>,
     <<"x*100", "x*100", "x*100", "x*100">>}

\* The lines of code a section holds.
ContentLines == {<<"a">>, <<" ", "b", " ">>, <<>>}

RECURSIVE LineSeqs(_)
\* The sequences of at most n content lines.
LineSeqs(n) ==
    IF n = 0 THEN {<<>>}
    ELSE LineSeqs(n - 1)
         \cup {Append(ls, l) : ls \in {x \in LineSeqs(n - 1) : Len(x) = n - 1},
                               l \in ContentLines}

\* A section of the model's answer as lines: missing, with one marker only,
\* or a START line, content lines and an END line.
SectionForms(start, end) ==
    {<<>>, <<<<start>>>>, <<<<end>>>>}
    \cup {<<<<start>>>> \o ls \o <<<<end>>>> : ls \in LineSeqs(MaxLines)}

\* The plain forms the other two sections take while one section varies.
PlainForms(start, end) ==
    {<<>>, <<<<start>>, <<"a">>, <<end>>>>}

RECURSIVE Join(_)
\* The lines joined by newlines.
Join(lines) ==
    IF lines = <<>> THEN <<>>
    ELSE IF Len(lines) = 1 THEN lines[1]
    ELSE lines[1] \o <<"\n">> \o Join(Tail(lines))

\* Marker answers: an optional line of prose, then the three sections.
MarkerTexts ==
    LET H == SectionForms("HTML_START", "HTML_END")
        C == SectionForms("CSS_START", "CSS_END")
        J == SectionForms("JS_START", "JS_END")
        h == PlainForms("HTML_START", "HTML_END")
        c == PlainForms("CSS_START", "CSS_END")
        j == PlainForms("JS_START", "JS_END")
        docs == {x \o y \o z : x \in H, y \in c, z \in j}
                \cup {x \o y \o z : x \in h, y \in C, z \in j}
                \cup {x \o y \o z : x \in h, y \in c, z \in J}
    IN  {Join(p \o d) : p \in {<<>>, <<<<"a">>>>}, d \in docs}

\* The objects, well formed or not, of JSON answers.
JsonObjects ==
    {<<"{", "\"html\"", ":", "\"a\"", ",", "\"css\"", ":", "\"b\"", ",", "\"js\"", ":", "\"c\"", "}">>,
     <<"{", "\n", "\"html\"", ":", " ", "\"a\"", ",", "\"css\"", ":", "\"b\"", ",", "\"js\"", ":", "\"c\"", "\n", "}">>,
     <<"{", "\"html\"", ":", "\"a\"", "}">>,
     <<"{", "\"html\"", ":", "5", ",", "\"css\"", ":", "null", ",", "\"js\"", ":", "{", "}", "}">>,
     <<"{", "\"html\"", ":", "\"\"", ",", "\"css\"", ":", "0", ",", "\"js\"", ":", "[", "true", "]", "}">>,
     <<"{", "\"html\"", ":", "\"a\"", ",", "\"html\"", ":", "\"b\"", "}">>,
     <<"{", "}">>,
     <<"{", "\"html\"", ":", "\"a\"", ",", "}">>,
     <<"{", "\"html\"", "\"a\"", "}">>,
     <<"{", "html", ":", "\"a\"", "}">>}

\* What the model writes before and after the object.
Prefixes == {<<>>, <<"JSON:", "\n">>, <<"a", "}", " ">>, <<"{", " ">>}

Suffixes == {<<>>, <<"\n", "a">>, <<" ", "{", "a">>, <<" ", "}">>}

\* JSON answers, and answers that hold a JSON value but no object.
JsonTexts ==
    {p \o o \o x : p \in Prefixes, o \in JsonObjects, x \in Suffixes}
    \cup {<<"null">>, <<"5">>, <<"\"a\"">>, <<"[", "]">>, <<" ">>, <<"a">>}

\* Every handler may be answered any of the texts.
Texts == MarkerTexts \cup JsonTexts \cup {<<>>}

\* What the call numbered attempt may resolve with.
Results(attempt) == {BlockedResult(attempt)} \cup {Result(t, attempt) : t \in Texts}

-----------------------------------------------------------------------------
(* The handler as a state machine                                          *)

Init ==
    /\ variant \in Variants
    /\ request \in Requests(variant)
    /\ apiKey \in BOOLEAN
    /\ pc = "received"
    /\ state = "Idle"
    /\ i = 0
    /\ maxRetries = 0
    /\ initialDelay = 0
    /\ calls = 0
    /\ delays = <<>>
    /\ timer = 0
    /\ failures = <<>>
    /\ caught = NoError
    /\ thrown = NoError
    /\ returned = UndefinedResult
    /\ response = Pending
    /\ ClientIdle
    /\ PoolIdle
    /\ AppIdle

\* The handler answers from its checks of the request, without calling the
\* API (or throws where a check stands outside the try blocks).
Reject ==
    /\ pc = "received"
    /\ Validation(variant, request, apiKey).done
    /\ response' = Validation(variant, request, apiKey).response
    /\ pc' = IF response'.kind = "escaped" THEN "escaped" ELSE "responded"
    /\ UNCHANGED <<clientVars, poolVars, appVars>>
    /\ UNCHANGED <<variant, request, apiKey, state, i, maxRetries, initialDelay,
                   calls, delays, timer, failures, caught, thrown, returned>>

\* The request passed the checks: the handler enters the invoker. A loop
\* whose bound is not positive runs no iteration and returns undefined.
BeginCall ==
    /\ pc = "received"
    /\ ~Validation(variant, request, apiKey).done
    /\ maxRetries' = Attempts(variant)
    /\ initialDelay' = IF Invoker(variant) = "backoff" THEN INITIAL_DELAY_MS ELSE 0
    /\ i' = 0
    /\ IF 0 < maxRetries'
       THEN /\ state' = "Attempting"
            /\ pc' = "calling"
            /\ UNCHANGED response
       ELSE /\ state' = "Succeeded"
            /\ pc' = "responded"
            /\ response' = Complete(variant, UndefinedResult)
    /\ UNCHANGED <<clientVars, poolVars, appVars>>
    /\ UNCHANGED <<variant, request, apiKey, calls, delays, timer, failures, caught,
                   thrown, returned>>

\* apiCall() resolves: the invoker returns the result and the handler
\* extracts the sections and answers.
ApiCallReturns ==
    /\ pc = "calling"
    /\ state = "Attempting"
    /\ \E r \in Results(calls + 1) :
          /\ returned' = r
          /\ response' = Complete(variant, r)
    /\ calls' = calls + 1
    /\ state' = "Succeeded"
    /\ pc' = "responded"
    /\ UNCHANGED <<clientVars, poolVars, appVars>>
    /\ UNCHANGED <<variant, request, apiKey, i, maxRetries, initialDelay, delays,
                   timer, failures, caught, thrown>>

\* apiCall() rejects and attempts remain: the loop sets the timer of the
\* backoff delay.
AttemptFails ==
    /\ pc = "calling"
    /\ state = "Attempting"
    /\ Invoker(variant) = "backoff"
    /\ ~IsLastAttempt(i, maxRetries)
    /\ \E m \in ErrorMessages :
          /\ caught' = Error(m, calls + 1)
          /\ failures' = Append(failures, m)
    /\ calls' = calls + 1
    /\ timer' = Delay(initialDelay, i)
    /\ state' = "Waiting"
    /\ UNCHANGED <<clientVars, poolVars, appVars>>
    /\ UNCHANGED <<variant, request, apiKey, pc, i, maxRetries, initialDelay,
                   delays, thrown, returned, response>>

\* apiCall() rejects on the last attempt (the only one, without the loop):
\* the error is thrown to the handler, whose catch block answers 500.
LastAttemptFails ==
    /\ pc = "calling"
    /\ state = "Attempting"
    /\ Invoker(variant) = "backoff" => IsLastAttempt(i, maxRetries)
    /\ \E m \in ErrorMessages :
          /\ thrown' = Error(m, calls + 1)
          /\ failures' = Append(failures, m)
          /\ response' = ReportError(variant, thrown')
    /\ calls' = calls + 1
    /\ state' = "Failed"
    /\ pc' = "responded"
    /\ UNCHANGED <<clientVars, poolVars, appVars>>
    /\ UNCHANGED <<variant, request, apiKey, i, maxRetries, initialDelay, delays,
                   timer, caught, returned>>

\* The timer fires: the loop goes to its next iteration, or ends and
\* returns undefined when its bound is reached.
DelayElapsed ==
    /\ pc = "calling"
    /\ state = "Waiting"
    /\ delays' = Append(delays, timer)
    /\ timer' = 0
    /\ caught' = NoError
    /\ i' = i + 1
    /\ IF i' < maxRetries
       THEN /\ state' = "Attempting"
            /\ UNCHANGED <<pc, response>>
       ELSE /\ state' = "Succeeded"
            /\ pc' = "responded"
            /\ response' = Complete(variant, UndefinedResult)
    /\ UNCHANGED <<clientVars, poolVars, appVars>>
    /\ UNCHANGED <<variant, request, apiKey, maxRetries, initialDelay, calls,
                   failures, thrown, returned>>

Next ==
    \/ Reject
    \/ BeginCall
    \/ ApiCallReturns
    \/ AttemptFails
    \/ LastAttemptFails
    \/ DelayElapsed

Spec == Init /\ [][Next]_allVars

-----------------------------------------------------------------------------
(* The model invoker                                                       *)

\* The indicators by which the specification tells a transient failure:
\* overload, timeout, 503 class.
TransientIndicators == {"503", "overloaded", "504", "timeout", "ECONNRESET"}

IsTransient(message) == \E t \in TransientIndicators : Includes(message, t)

\* C1: when the call fails twice with a transient error and then succeeds,
\* fetchWithRetries (maxRetries = 3, initialDelay = 1000) returns the result
\* of the third call after two retries, having waited 1000 ms and 2000 ms.
C1_RetrySuccessPath ==
    (/\ Invoker(variant) = "backoff"
     /\ state = "Succeeded"
     /\ Len(failures) = 2
     /\ IsTransient(failures[1])
     /\ IsTransient(failures[2]))
    => /\ maxRetries = 3 /\ initialDelay = 1000
       /\ calls = 3
       /\ returned.defined /\ returned.attempt = 3
       /\ delays = <<1000, 2000>>
       /\ timer = 0

C1_Witness ==
    /\ Invoker(variant) = "backoff"
    /\ state = "Succeeded"
    /\ failures = <<<<"503", " ", "overloaded">>, <<"504", " ", "timeout">>>>
    /\ response.status = 200
    /\ response.html = Str(<<"a">>)

\* C2 as stated: a non-transient error on the first attempt makes the
\* invoker fail at once: one call, no delay, that error propagated.
C2_NonTransientFailsAtOnce ==
    (failures # <<>> /\ ~IsTransient(failures[1]))
    => /\ state = "Failed"
       /\ calls = 1
       /\ delays = <<>> /\ timer = 0
       /\ thrown = Error(failures[1], 1)

\* C2 as amended: errors are not classified. After a non-transient error on
\* the first attempt the retrying invoker does not fail: it waits
\* initialDelay and then attempts again, as after any error; the invokers
\* that call once fail at once, with one call, no delay and that error.
C2_NonTransientFirstError ==
    (failures # <<>> /\ ~IsTransient(failures[1]) /\ calls = 1)
    => IF Invoker(variant) = "backoff"
       THEN /\ state \in {"Waiting", "Attempting"}
            /\ thrown = NoError
            /\ pc = "calling"
            /\ state = "Waiting" => (timer = INITIAL_DELAY_MS /\ delays = <<>>)
            /\ state = "Attempting" => (timer = 0 /\ delays = <<INITIAL_DELAY_MS>>)
       ELSE /\ state = "Failed"
            /\ delays = <<>> /\ timer = 0
            /\ thrown = Error(failures[1], 1)
            /\ response.status = 500

C2_Witness ==
    /\ Invoker(variant) = "backoff"
    /\ failures # <<>>
    /\ ~IsTransient(failures[1])
    /\ calls = 2
    /\ delays = <<INITIAL_DELAY_MS>>

\* C3: the invoker calls the API at most the fixed bound of times for one
\* request (MAX_RETRIES in the retrying handlers, once in the others), and
\* when every attempt failed it has given up and thrown the error of the
\* last attempt.
C3_RetryBound ==
    /\ calls <= (IF Invoker(variant) = "backoff" THEN MAX_RETRIES ELSE 1)
    /\ Len(failures) <= calls
    /\ Len(failures) = (IF Invoker(variant) = "backoff" THEN MAX_RETRIES ELSE 1)
       => /\ state = "Failed"
          /\ thrown = Error(failures[Len(failures)], Len(failures))
          /\ response.status = 500
    /\ state = "Failed"
       => /\ Len(failures) = calls
          /\ thrown.attempt = calls
          /\ thrown.message = failures[calls]

C3_Witness ==
    /\ Invoker(variant) = "backoff"
    /\ state = "Failed"
    /\ calls = MAX_RETRIES
    /\ failures[1] # failures[3]
    /\ failures[2] # failures[3]
    /\ thrown.message = failures[3]

\* C4 as stated: the invoker leaves Attempting for Waiting only on a
\* transient failure with attempts remaining, and for Failed on a
\* non-transient error or on exhausted attempts.
C4_TransitionsAsStated ==
    [][state' # state =>
         \/ state = "Idle" /\ state' = "Attempting"
         \/ /\ state = "Attempting" /\ state' = "Waiting"
            /\ Len(failures') = Len(failures) + 1
            /\ IsTransient(failures'[Len(failures')])
            /\ Len(failures') < maxRetries
         \/ state = "Waiting" /\ state' = "Attempting"
         \/ state = "Attempting" /\ state' = "Succeeded"
         \/ /\ state = "Attempting" /\ state' = "Failed"
            /\ Len(failures') = Len(failures) + 1
            /\ \/ ~IsTransient(failures'[Len(failures')])
               \/ Len(failures') = maxRetries]_vars

\* C4 as amended: the invoker is a state machine over Attempting, Waiting,
\* Succeeded and Failed (entered in Attempting) whose only transitions are
\* Attempting to Waiting on any failure with attempts remaining, Waiting to
\* Attempting after the delay, Attempting to Succeeded on success, and
\* Attempting to Failed on a failure of the last attempt; Succeeded and
\* Failed are terminal.
C4_Transitions ==
    [][state' # state =>
         \/ state = "Idle" /\ state' = "Attempting"
         \/ /\ state = "Attempting" /\ state' = "Waiting"
            /\ Len(failures') = Len(failures) + 1
            /\ Len(failures') < maxRetries
            /\ timer' > 0
         \/ /\ state = "Waiting" /\ state' = "Attempting"
            /\ delays' = Append(delays, timer)
            /\ failures' = failures
         \/ /\ state = "Attempting" /\ state' = "Succeeded"
            /\ failures' = failures
            /\ returned'.defined
         \/ /\ state = "Attempting" /\ state' = "Failed"
            /\ Len(failures') = Len(failures) + 1
            /\ Len(failures') = maxRetries]_vars

C4_Witness ==
    /\ state = "Waiting"
    /\ ~IsTransient(caught.message)
    /\ Len(failures) = 2

-----------------------------------------------------------------------------
(* Marker extraction                                                       *)

RECURSIVE Split(_)
\* The lines of a text.
Split(text) ==
    IF IndexOf(text, "\n") = 0 THEN <<text>>
    ELSE <<SubSeq(text, 1, IndexOf(text, "\n") - 1)>>
         \o Split(SubSeq(text, IndexOf(text, "\n") + 1, Len(text)))

Markers == {"HTML_START", "HTML_END", "CSS_START", "CSS_END", "JS_START", "JS_END"}

\* The number of places of the text that hold token t.
Occurrences(text, t) == Cardinality({p \in 1..Len(text) : text[p] = t})

\* The pair is present: a line that is START and a later line that is END.
HasPair(lines, start, end) ==
    \E a \in 1..Len(lines) : \E b \in (a + 1)..Len(lines) :
        lines[a] = <<start>> /\ lines[b] = <<end>>

\* The content the pair encloses: the lines between the START line and the
\* END line.
Enclosed(lines, start, end) ==
    LET a == CHOOSE x \in 1..Len(lines) : lines[x] = <<start>>
        b == CHOOSE x \in 1..Len(lines) : lines[x] = <<end>>
    IN  Join(SubSeq(lines, a + 1, b - 1))

\* Well-formed marker text: each of the six markers occurs once, on a line
\* of its own, each START before its END.
WellFormed(text) ==
    /\ \A t \in Markers : Occurrences(text, t) = 1
    /\ HasPair(Split(text), "HTML_START", "HTML_END")
    /\ HasPair(Split(text), "CSS_START", "CSS_END")
    /\ HasPair(Split(text), "JS_START", "JS_END")

\* The handler read a text from the model and took it for marker text.
MarkerAnswer ==
    /\ variant # "netlify_json"
    /\ pc = "responded"
    /\ state = "Succeeded"
    /\ returned.defined
    /\ ~returned.blocked

\* C5: for well-formed marker text the handler returns for each of html,
\* css and js the content its pair encloses, trimmed.
C5_WellFormedMarkers ==
    (MarkerAnswer /\ WellFormed(returned.text))
    => /\ response.status = 200
       /\ response.html
            = Str(Trim(Enclosed(Split(returned.text), "HTML_START", "HTML_END")))
       /\ response.css
            = Str(Trim(Enclosed(Split(returned.text), "CSS_START", "CSS_END")))
       /\ response.js
            = Str(Trim(Enclosed(Split(returned.text), "JS_START", "JS_END")))

C5_Witness ==
    /\ MarkerAnswer
    /\ WellFormed(returned.text)
    /\ response.status = 200
    /\ response.html = Str(<<"b", " ", "\n", "a">>)
    /\ response.css = Str(<<"a">>)
    /\ response.js = Str(<<"a">>)

\* The text with the pair of a section made present: an END line added at
\* the end for a START left open, a START line added at the start for an
\* END alone, a whole section added at the start when both are missing.
WithPair(text, start, end) ==
    IF Includes(text, start) /\ ~Includes(text, end)
    THEN text \o <<"\n", end>>
    ELSE IF Includes(text, end) /\ ~Includes(text, start)
    THEN <<start, "\n">> \o text
    ELSE <<start, "\n", "a", "\n", end, "\n">> \o text

\* The section with the pair (start, end) is missing or unmatched in the
\* answer, and the answer is no empty text.
MissingPair(start, end) ==
    /\ MarkerAnswer
    /\ returned.text # <<>>
    /\ ~HasPair(Split(returned.text), start, end)
    /\ ~(Includes(returned.text, start) /\ Includes(returned.text, end))

\* C6: when the pair of one section is missing or unmatched, the field of
\* that section is the empty string, the other two fields are what they
\* are with the pair present, and the handler answers 200.
C6_MissingPair ==
    /\ MissingPair("HTML_START", "HTML_END")
       => /\ response.status = 200
          /\ response.html = Str(<<>>)
          /\ response.css = Str(Section(WithPair(returned.text, "HTML_START", "HTML_END"),
                                        "CSS_START", "CSS_END"))
          /\ response.js = Str(Section(WithPair(returned.text, "HTML_START", "HTML_END"),
                                       "JS_START", "JS_END"))
    /\ MissingPair("CSS_START", "CSS_END")
       => /\ response.status = 200
          /\ response.css = Str(<<>>)
          /\ response.html = Str(Section(WithPair(returned.text, "CSS_START", "CSS_END"),
                                         "HTML_START", "HTML_END"))
          /\ response.js = Str(Section(WithPair(returned.text, "CSS_START", "CSS_END"),
                                       "JS_START", "JS_END"))
    /\ MissingPair("JS_START", "JS_END")
       => /\ response.status = 200
          /\ response.js = Str(<<>>)
          /\ response.html = Str(Section(WithPair(returned.text, "JS_START", "JS_END"),
                                         "HTML_START", "HTML_END"))
          /\ response.css = Str(Section(WithPair(returned.text, "JS_START", "JS_END"),
                                        "CSS_START", "CSS_END"))

C6_Witness ==
    /\ MissingPair("HTML_START", "HTML_END")
    /\ Includes(returned.text, "HTML_START")
    /\ response.status = 200
    /\ response.html = Str(<<>>)
    /\ response.css = Str(<<"a">>)
    /\ response.js = Str(<<"a">>)

-----------------------------------------------------------------------------
(* JSON extraction                                                         *)

\* {"html":"a","css":"b","js":"c"}
AbcObject ==
    <<"{", "\"html\"", ":", "\"a\"", ",", "\"css\"", ":", "\"b\"", ",", "\"js\"", ":", "\"c\"", "}">>

\* The JSON handler read a text from the model.
JsonAnswer ==
    /\ variant = "netlify_json"
    /\ pc = "responded"
    /\ state = "Succeeded"
    /\ returned.defined
    /\ ~returned.blocked

\* The text is prefix, object, suffix, the object starting at position k.
ObjectAt(text, k) ==
    /\ k + Len(AbcObject) - 1 <= Len(text)
    /\ SubSeq(text, k, k + Len(AbcObject) - 1) = AbcObject

\* C7 as stated: for text prefix{"html":"a","css":"b","js":"c"}suffix, for
\* any prefix and suffix, JSON extraction returns html a, css b, js c.
C7_AnyPrefixSuffix ==
    (JsonAnswer /\ \E k \in 1..Len(returned.text) : ObjectAt(returned.text, k))
    => /\ response.status = 200
       /\ response.html = Str(<<"a">>)
       /\ response.css = Str(<<"b">>)
       /\ response.js = Str(<<"c">>)

\* The prefix before position k holds no '{' and the suffix after the
\* object holds no '}'.
CleanAround(text, k) ==
    /\ \A p \in 1..(k - 1) : text[p] # "{"
    /\ \A p \in (k + Len(AbcObject))..Len(text) : text[p] # "}"

\* C7 as amended: for text prefix{"html":"a","css":"b","js":"c"}suffix, for
\* any prefix that holds no '{' and any suffix that holds no '}', JSON
\* extraction returns html a, css b, js c.
C7_CleanPrefixSuffix ==
    (JsonAnswer /\ \E k \in 1..Len(returned.text) :
                      ObjectAt(returned.text, k) /\ CleanAround(returned.text, k))
    => /\ response.status = 200
       /\ response.html = Str(<<"a">>)
       /\ response.css = Str(<<"b">>)
       /\ response.js = Str(<<"c">>)

C7_Witness ==
    /\ JsonAnswer
    /\ returned.text = <<"a", "}", " ">> \o AbcObject \o <<" ", "{", "a">>
    /\ response.status = 200
    /\ response.html = Str(<<"a">>)

\* The objects of the answers that are JSON.
WellFormedObjects ==
    {AbcObject,
     <<"{", "\n", "\"html\"", ":", " ", "\"a\"", ",", "\"css\"", ":", "\"b\"", ",", "\"js\"", ":", "\"c\"", "\n", "}">>,
     <<"{", "\"html\"", ":", "\"a\"", "}">>,
     <<"{", "\"html\"", ":", "5", ",", "\"css\"", ":", "null", ",", "\"js\"", ":", "{", "}", "}">>,
     <<"{", "\"html\"", ":", "\"\"", ",", "\"css\"", ":", "0", ",", "\"js\"", ":", "[", "true", "]", "}">>,
     <<"{", "\"html\"", ":", "\"a\"", ",", "\"html\"", ":", "\"b\"", "}">>,
     <<"{", "}">>}

\* The text from its first '{' to its last '}'.
BetweenBraces(text) ==
    SubSeq(text,
           CHOOSE p \in 1..Len(text) : text[p] = "{" /\ \A q \in 1..(p - 1) : text[q] # "{",
           CHOOSE p \in 1..Len(text) : text[p] = "}" /\ \A q \in (p + 1)..Len(text) : text[q] # "}")

\* The answer holds a '{' and a later '}' and what they enclose is no JSON.
MalformedBetweenBraces ==
    /\ JsonAnswer
    /\ \E p \in 1..Len(returned.text) : \E q \in (p + 1)..Len(returned.text) :
          returned.text[p] = "{" /\ returned.text[q] = "}"
    /\ BetweenBraces(returned.text) \notin WellFormedObjects

\* C8: for text whose content between the first '{' and the last '}' is
\* malformed JSON the handler answers 500 with an error field, and no 200
\* response carries html, css or js.
C8_MalformedJson ==
    MalformedBetweenBraces
    => /\ response.status = 500
       /\ response.kind = "json"
       /\ "error" \in response.keys
       /\ response.error # <<>>
       /\ response.keys \cap {"html", "css", "js"} = {}
       /\ response.html = Undefined /\ response.css = Undefined /\ response.js = Undefined

C8_Witness ==
    /\ MalformedBetweenBraces
    /\ returned.text = <<"JSON:", "\n", "{", "\"html\"", ":", "\"a\"", ",", "}">>
    /\ response.status = 500
    /\ Includes(response.error, "Failed to parse JSON response: ")

-----------------------------------------------------------------------------
(* The request boundary                                                    *)

\* The JSON texts of a body that carries a prompt.
PromptBodies ==
    {<<"{", "\"prompt\"", ":", "\"a\"", "}">>, <<"{", "\"prompt\"", ":", "5", "}">>}

\* The request carries a prompt: as a JSON string, as its Base64, or as the
\* object parsed from it.
CarriesPrompt(req) ==
    \/ req.body.t = "string" /\ ~req.isBase64Encoded /\ req.body.s \in PromptBodies
    \/ req.body.t = "string" /\ req.isBase64Encoded
                             /\ \E b \in PromptBodies : req.body.s = Base64Encode(b)
    \/ req.body.t = "object" /\ \E n \in 1..Len(req.body.m) :
                                   req.body.m[n].k = <<"prompt">> /\ req.body.m[n].v.s # <<>>

\* C9: a POST whose body has no prompt is answered 400 with an error field;
\* a POST with a prompt while the API key is not configured is answered 500
\* with an error field.
C9_PromptAndKey ==
    (pc # "received" /\ request.method = "POST")
    => /\ ~CarriesPrompt(request)
          => /\ response.status = 400
             /\ "error" \in response.keys
       /\ (CarriesPrompt(request) /\ ~apiKey)
          => /\ response.status = 500
             /\ "error" \in response.keys

-----------------------------------------------------------------------------
(* The 200 response                                                        *)

\* The handler answered 200 with the code it extracted.
CodeAnswer ==
    /\ pc = "responded"
    /\ state = "Succeeded"
    /\ response.status = 200

\* C11: in every 200 response html, css and js are strings, whatever the
\* text of the model and whatever the types of the values of the parsed
\* object.
C11_FieldsAreStrings ==
    CodeAnswer
    => /\ response.html.t = "string"
       /\ response.css.t = "string"
       /\ response.js.t = "string"

\* C12: every 200 response that carries code is a JSON body with the keys
\* html, css, js and text, text being the text the model answered (as it
\* is, or trimmed where the handler trims what it reads).
C12_CodeResponseKeys ==
    CodeAnswer
    => /\ response.kind = "json"
       /\ response.keys = {"html", "css", "js", "text"}
       /\ response.text \in {returned.text, Trim(returned.text)}

-----------------------------------------------------------------------------
(* The 500 response of a failed call                                       *)

\* The call of the API failed for good and the handler answered.
CallFailed ==
    /\ pc = "responded"
    /\ state = "Failed"

\* The message tells a timeout of the provider or of the platform.
IsTimeout(message) == Includes(message, "504") \/ Includes(message, "timeout")

\* C13: when the call fails with a timeout (a message holding 504 or
\* timeout) the handler answers 500 and its error is the guidance to
\* shorten or simplify the prompt, not the generic failure message.
C13_TimeoutGuidance ==
    (CallFailed /\ IsTimeout(thrown.message))
    => /\ response.status = 500
       /\ response.error \in {<<ShortenGuidance>>, <<SignificantlyShortenGuidance>>}

\* C14: when the call fails with an error that tells no timeout (nor a
\* connection reset) the handler answers 500 and its error is the generic
\* failure message followed by the first 300 characters, at most, of the
\* message of the error, in every handler.
C14_TruncatedDetail ==
    (CallFailed /\ ~IsTimeout(thrown.message) /\ ~Includes(thrown.message, "ECONNRESET"))
    => /\ response.status = 500
       /\ \E end \in {<<>>, <<".">>} :
             response.error = <<GenericFailure, " Details: ">>
                              \o Substring(thrown.message, 300) \o end

-----------------------------------------------------------------------------
(* The API key                                                             *)

\* The messages of the 500 response for a missing key.
ConfigurationErrors ==
    {<<"Server configuration error: API Key missing.">>,
     <<"Server API key not configured.">>,
     <<"Server API key not configured. Please set GEMINI_API_KEY environment variable.">>}

\* C15: without the API key the handler still takes requests, answers
\* every POST that carries a prompt with 500 and a configuration error,
\* and never calls the generation API.
C15_KeyAbsent ==
    ~apiKey
    => /\ calls = 0
       /\ pc \in {"received", "responded"}
       /\ (pc = "responded" /\ request.method = "POST" /\ CarriesPrompt(request))
          => /\ response.status = 500
             /\ response.error \in ConfigurationErrors

-----------------------------------------------------------------------------
(* The client                                                              *)

MaxSubmits == 3

\* The two PromptInput components, named by their submit handlers.
Components == {"handleSubmit", "handleGenerate"}

\* What the user types.
Prompts == {<<>>, <<" ">>, <<"a">>, <<"b">>}

\* suggestions
Suggestions == {<<"build a calculator">>}

\* disabled={loading} of the button (and of the input of handleGenerate):
\* the browser delivers no click and no key to a disabled control.
DisabledNever(isLoading) == FALSE

Disabled(isLoading) == isLoading

\* How a posted request ends: with the data of a 200 response, with an
\* error response that carries data.error, or without any response.
Replies == {"code", "error", "failure"}

\* err.response?.data?.error || 'Failed to generate code. Please try again.'
ReplyError(reply) ==
    IF reply = "error" THEN <<"data.error">>
    ELSE <<"Failed to generate code. Please try again.">>

\* The sequence without its element at position n.
Without(seq, n) == SubSeq(seq, 1, n - 1) \o SubSeq(seq, n + 1, Len(seq))

\* The handler variables while only the client is looked at.
HandlerIdle ==
    /\ variant = "vercel"
    /\ request = [method |-> "POST", body |-> Undefined, isBase64Encoded |-> FALSE]
    /\ apiKey = TRUE
    /\ pc = "received"
    /\ state = "Idle"
    /\ i = 0
    /\ maxRetries = 0
    /\ initialDelay = 0
    /\ calls = 0
    /\ delays = <<>>
    /\ timer = 0
    /\ failures = <<>>
    /\ caught = NoError
    /\ thrown = NoError
    /\ returned = UndefinedResult
    /\ response = Pending

\* The page is open: the component is mounted with its initial state.
ClientInit ==
    /\ component \in Components
    /\ prompt = <<>>
    /\ loading = FALSE
    /\ clientError = <<>>
    /\ inFlight = <<>>
    /\ submits = 0
    /\ dropped = 0
    /\ generated = "none"
    /\ HandlerIdle
    /\ PoolIdle
    /\ AppIdle

\* handleSubmit and handleGenerate up to their await: the check of the
\* prompt, setLoading(true), axios.post. React commits the state before
\* the browser delivers the next event.
Submit ==
    IF Trim(prompt) = <<>>
    THEN /\ clientError' = <<"Please enter a prompt.">>
         /\ UNCHANGED <<loading, inFlight>>
    ELSE /\ loading' = TRUE
         /\ clientError' = <<>>
         /\ inFlight' = Append(inFlight, prompt)

\* The controls whose events call the handler: the button (onClick) and,
\* in handleGenerate, the input (onKeyDown, Enter).
SubmitControls(c) == IF c = "handleGenerate" THEN {"button", "input"} ELSE {"button"}

\* A submit action of the user, a click of the button or Enter in the
\* input: dropped when the control is disabled, else the handler runs.
SubmitAction ==
    /\ submits < MaxSubmits
    /\ submits' = submits + 1
    /\ \E control \in SubmitControls(component) :
          IF Disabled(loading)
          THEN /\ dropped' = dropped + 1
               /\ UNCHANGED <<loading, clientError, inFlight>>
          ELSE /\ Submit
               /\ UNCHANGED dropped
    /\ UNCHANGED <<component, prompt, generated>>
    /\ UNCHANGED <<vars, poolVars, appVars>>

\* The user types in the textarea (never disabled) or in the input
\* (disabled while loading).
TypePrompt ==
    /\ component = "handleGenerate" => ~Disabled(loading)
    /\ \E p \in Prompts : prompt' = p /\ p # prompt
    /\ UNCHANGED <<component, loading, clientError, inFlight, submits, dropped, generated>>
    /\ UNCHANGED <<vars, poolVars, appVars>>

\* handleSuggestionClick: the suggestion buttons are never disabled.
ClickSuggestion ==
    /\ component = "handleGenerate"
    /\ \E p \in Suggestions : prompt' = p /\ p # prompt
    /\ UNCHANGED <<component, loading, clientError, inFlight, submits, dropped, generated>>
    /\ UNCHANGED <<vars, poolVars, appVars>>

\* The promise of axios.post settles: the rest of the handler runs, with
\* the prompt of its closure.
ResponseArrives ==
    /\ \E n \in 1..Len(inFlight) : \E reply \in Replies :
          /\ inFlight' = Without(inFlight, n)
          /\ IF reply = "code"
             THEN /\ generated' = "code"
                  /\ prompt' = IF component = "handleSubmit" THEN <<>> ELSE prompt
                  /\ UNCHANGED clientError
             ELSE /\ clientError' = ReplyError(reply)
                  /\ generated' = IF component = "handleGenerate" THEN "errorCode"
                                                                  ELSE generated
                  /\ UNCHANGED prompt
    /\ loading' = FALSE
    /\ UNCHANGED <<component, submits, dropped>>
    /\ UNCHANGED <<vars, poolVars, appVars>>

ClientNext ==
    \/ SubmitAction
    \/ TypePrompt
    \/ ClickSuggestion
    \/ ResponseArrives

ClientSpec == ClientInit /\ [][ClientNext]_allVars

\* C16: under any interleaving of submit actions and arrivals of responses
\* at most one request is in flight, and the component is loading while
\* one is: a submit action made meanwhile sends no second request.
C16_SingleOutstanding ==
    /\ Len(inFlight) <= 1
    /\ inFlight # <<>> => loading
    /\ submits - dropped >= Len(inFlight)

C16_Witness ==
    /\ dropped >= 1
    /\ Len(inFlight) = 1
    /\ generated = "code"

-----------------------------------------------------------------------------
(* Several invocations in one process                                      *)

MaxInvocations == 2

Invocations == 1..MaxInvocations

\* The handler the invocations run: the retrying Netlify handler.
PoolVariant == "netlify_backoff"

\* The requests of the invocations: with a prompt, and without.
PoolRequests ==
    {[method |-> "POST", body |-> Str(b), isBase64Encoded |-> FALSE] :
        b \in {<<"{", "\"prompt\"", ":", "\"a\"", "}">>, <<"{", "}">>}}

\* What a call of the API ends with: a text, or an error with a message.
PoolOutcomes ==
    {[ok |-> TRUE, message |-> <<>>, text |-> t] :
        t \in {<<"HTML_START", "\n", "a", "\n", "HTML_END">>, <<"a">>}}
    \cup {[ok |-> FALSE, message |-> m, text |-> <<>>] :
        m \in {<<"503", " ", "overloaded">>, <<"400", " ", "API key not valid">>}}

\* Mutant: the loop index is one binding shared by all the calls, as a
\* variable of the module would be.
FrameShared(p) == 1

\* The binding of i that the call of fetchWithRetries of invocation p
\* reads and writes: for (let i = 0; ...) makes one for each call.
Frame(p) == p

\* An invocation that has just received its request.
Received(req) ==
    [request |-> req, pc |-> "received", state |-> "Idle", calls |-> 0,
     delays |-> <<>>, outcomes |-> <<>>, response |-> Pending]

PoolInit ==
    /\ inv \in [Invocations -> {Received(r) : r \in PoolRequests}]
    /\ frames = [c \in Invocations |-> 0]
    /\ HandlerIdle
    /\ ClientIdle
    /\ AppIdle

\* Invocation p answers from its checks of the request.
PoolReject(p) ==
    /\ inv[p].pc = "received"
    /\ Validation(PoolVariant, inv[p].request, apiKey).done
    /\ inv' = [inv EXCEPT ![p].pc = "responded",
                          ![p].response =
                              Validation(PoolVariant, inv[p].request, apiKey).response]
    /\ UNCHANGED <<frames, vars, clientVars, appVars>>

\* Invocation p enters fetchWithRetries: let i = 0.
PoolBeginCall(p) ==
    /\ inv[p].pc = "received"
    /\ ~Validation(PoolVariant, inv[p].request, apiKey).done
    /\ inv' = [inv EXCEPT ![p].pc = "calling", ![p].state = "Attempting"]
    /\ frames' = [frames EXCEPT ![Frame(p)] = 0]
    /\ UNCHANGED <<vars, clientVars, appVars>>

\* apiCall() of invocation p resolves.
PoolApiCallReturns(p) ==
    /\ inv[p].pc = "calling"
    /\ inv[p].state = "Attempting"
    /\ \E o \in {x \in PoolOutcomes : x.ok} :
          inv' = [inv EXCEPT
                     ![p].pc = "responded",
                     ![p].state = "Succeeded",
                     ![p].calls = @ + 1,
                     ![p].outcomes = Append(@, o),
                     ![p].response =
                         Complete(PoolVariant, Result(o.text, inv[p].calls + 1))]
    /\ UNCHANGED <<frames, vars, clientVars, appVars>>

\* apiCall() of invocation p rejects and attempts remain: setTimeout.
PoolAttemptFails(p) ==
    /\ inv[p].pc = "calling"
    /\ inv[p].state = "Attempting"
    /\ ~IsLastAttempt(frames[Frame(p)], MAX_RETRIES)
    /\ \E o \in {x \in PoolOutcomes : ~x.ok} :
          inv' = [inv EXCEPT
                     ![p].state = "Waiting",
                     ![p].calls = @ + 1,
                     ![p].outcomes = Append(@, o),
                     ![p].delays =
                         Append(@, Delay(INITIAL_DELAY_MS, frames[Frame(p)]))]
    /\ UNCHANGED <<frames, vars, clientVars, appVars>>

\* apiCall() of invocation p rejects on the last attempt: throw error.
PoolLastAttemptFails(p) ==
    /\ inv[p].pc = "calling"
    /\ inv[p].state = "Attempting"
    /\ IsLastAttempt(frames[Frame(p)], MAX_RETRIES)
    /\ \E o \in {x \in PoolOutcomes : ~x.ok} :
          inv' = [inv EXCEPT
                     ![p].pc = "responded",
                     ![p].state = "Failed",
                     ![p].calls = @ + 1,
                     ![p].outcomes = Append(@, o),
                     ![p].response =
                         ReportError(PoolVariant, Error(o.message, inv[p].calls + 1))]
    /\ UNCHANGED <<frames, vars, clientVars, appVars>>

\* The timer of invocation p fires: i++, and the loop goes on or ends.
PoolDelayElapsed(p) ==
    /\ inv[p].pc = "calling"
    /\ inv[p].state = "Waiting"
    /\ frames' = [frames EXCEPT ![Frame(p)] = @ + 1]
    /\ IF frames'[Frame(p)] < MAX_RETRIES
       THEN inv' = [inv EXCEPT ![p].state = "Attempting"]
       ELSE inv' = [inv EXCEPT ![p].pc = "responded",
                               ![p].state = "Succeeded",
                               ![p].response = Complete(PoolVariant, UndefinedResult)]
    /\ UNCHANGED <<vars, clientVars, appVars>>

PoolNext ==
    \E p \in Invocations :
        \/ PoolReject(p)
        \/ PoolBeginCall(p)
        \/ PoolApiCallReturns(p)
        \/ PoolAttemptFails(p)
        \/ PoolLastAttemptFails(p)
        \/ PoolDelayElapsed(p)

PoolSpec == PoolInit /\ [][PoolNext]_allVars

\* An invocation run alone: what it has done and answered.
Ran(done, nCalls, waited, answer) ==
    [done |-> done, calls |-> nCalls, delays |-> waited, response |-> answer]

RECURSIVE Replay(_, _, _)
\* fetchWithRetries and the handler run alone on the outcomes outs of the
\* calls of the API, from attempt index on, having waited the delays.
Replay(outs, index, waited) ==
    IF outs = <<>> THEN Ran(FALSE, index, waited, Pending)
    ELSE IF Head(outs).ok
    THEN Ran(TRUE, index + 1, waited,
             Complete(PoolVariant, Result(Head(outs).text, index + 1)))
    ELSE IF index = MAX_RETRIES - 1
    THEN Ran(TRUE, index + 1, waited,
             ReportError(PoolVariant, Error(Head(outs).message, index + 1)))
    ELSE Replay(Tail(outs), index + 1,
                Append(waited, INITIAL_DELAY_MS * Pow2(index)))

\* The handler run alone on a request and the outcomes of its calls.
Alone(req, outs) ==
    IF Validation(PoolVariant, req, apiKey).done
    THEN Ran(TRUE, 0, <<>>, Validation(PoolVariant, req, apiKey).response)
    ELSE Replay(outs, 0, <<>>)

\* The invocation is where the lone run is.
SameAsAlone(r, a) ==
    /\ r.calls = a.calls
    /\ r.delays = a.delays
    /\ r.pc = "responded" => (a.done /\ r.response = a.response)
    /\ r.pc = "calling" => ~a.done

\* C17: when invocations interleave, the calls, the delays and the
\* response of each are those of a run alone on its own request and the
\* outcomes of its own calls.
C17_Independent ==
    \A p \in DOMAIN inv : SameAsAlone(inv[p], Alone(inv[p].request, inv[p].outcomes))

C17_Witness ==
    /\ inv # <<>>
    /\ inv[1].pc = "responded" /\ inv[1].state = "Succeeded"
    /\ inv[1].delays = <<1000, 2000>>
    /\ inv[2].pc = "responded" /\ inv[2].state = "Failed"
    /\ inv[2].delays = <<1000, 2000>>
    /\ inv[1].outcomes[1] # inv[2].outcomes[1]

-----------------------------------------------------------------------------
(* Whitespace around the text of the model                                 *)

\* The whitespace added before and after a text.
Pads == {<<>>, <<" ">>, <<"\n">>}

\* The text with whitespace added before it, after it or both.
Padded(text) == {pre \o text \o post : pre \in Pads, post \in Pads}

\* What the client gets of an answer: the status and the three sections.
Fields(r) == <<r.status, r.html, r.css, r.js>>

\* The handler read a text, empty or not, from the model and answered.
TextAnswer ==
    /\ pc = "responded"
    /\ state = "Succeeded"
    /\ returned.defined
    /\ ~returned.blocked

\* The answer to every padded form of the text is the answer to the text.
PaddingKeepsFields ==
    \A t \in Padded(returned.text) :
        Fields(Complete(variant, Result(t, returned.attempt))) = Fields(response)

\* C18 as stated: for any text of the model, whitespace added before or
\* after it changes nothing of html, css and js, and the marker handlers
\* do not throw, whatever sections are missing.
C18_AnyText ==
    TextAnswer
    => /\ PaddingKeepsFields
       /\ variant # "netlify_json" => response.status = 200

\* C18 as amended: the same for any text of the model that is not empty.
C18_NonEmptyText ==
    (TextAnswer /\ returned.text # <<>>)
    => /\ PaddingKeepsFields
       /\ variant # "netlify_json" => response.status = 200

C18_Witness ==
    /\ TextAnswer
    /\ variant = "express"
    /\ returned.text # <<>>
    /\ Head(returned.text) = "HTML_START"
    /\ response.html = Str(<<"b">>)
    /\ Fields(Complete(variant, Result(<<"\n">> \o returned.text \o <<" ">>, 1)))
           = <<200, Str(<<"b">>), Str(<<"a">>), Str(<<"a">>)>>

-----------------------------------------------------------------------------
(* The method of the request                                               *)

\* Every body a request may carry.
AnyBodies == {Null, Undefined} \cup {Str(b) : b \in BodyStrings} \cup ParsedBodies

\* The request with another body.
WithBody(req, b, encoded) == [req EXCEPT !.body = b, !.isBase64Encoded = encoded]

\* The answer is the same whatever the body: the handler did not read it.
BodyNotRead ==
    \A b \in AnyBodies : \A encoded \in BOOLEAN :
        /\ Validation(variant, WithBody(request, b, encoded), apiKey).done
        /\ Validation(variant, WithBody(request, b, encoded), apiKey).response = response

\* C19: an OPTIONS request is answered 200 and any other method than POST
\* 405 with an error field; in both cases the body is not read and the
\* API is not called.
C19_MethodCheck ==
    (pc # "received" /\ request.method # "POST")
    => /\ pc = "responded"
       /\ calls = 0
       /\ state = "Idle"
       /\ BodyNotRead
       /\ IF request.method = "OPTIONS"
          THEN /\ response.status = 200
               /\ response.keys = {}
          ELSE /\ response.status = 405
               /\ response.kind = "json"
               /\ "error" \in response.keys
               /\ response.error = <<"Method Not Allowed">>

C19_Witness ==
    /\ pc = "responded"
    /\ request.method = "GET"
    /\ request.body = Str(<<"{", "\"prompt\"">>)
    /\ response.status = 405

-----------------------------------------------------------------------------
(* JSON extraction without an object                                       *)

\* The text holds a '{' and a later '}'.
HasBraces(text) ==
    \E p \in 1..Len(text) : \E q \in (p + 1)..Len(text) :
        text[p] = "{" /\ text[q] = "}"

\* C20: the JSON handler answers 200 only when the text holds a JSON
\* object between braces that parsed; a text without a pair of braces, or
\* one that parses to a value that is no object, is answered with a
\* reported error, not with 200 and empty fields.
C20_ParsedObjectOnly ==
    JsonAnswer
    => /\ response.status = 200
          => /\ HasBraces(returned.text)
             /\ BetweenBraces(returned.text) \in WellFormedObjects
       /\ response.status # 200
          => /\ response.status = 500
             /\ "error" \in response.keys

-----------------------------------------------------------------------------
(* fetchWithRetries on its own                                             *)

MaxRetryBound == 3

\* The arguments the function is called with.
RetryBounds == 0..MaxRetryBound

InitialDelays == {1, INITIAL_DELAY_MS}

\* The invocations of apiCall the model follows: one more than any loop
\* with a bound in RetryBounds makes.
MaxCalls == MaxRetryBound + 1

\* What apiCall resolves with.
RetryResults(attempt) ==
    {BlockedResult(attempt), Result(<<>>, attempt), Result(<<"a">>, attempt)}

\* The handler that awaits the function.
RetryCaller ==
    /\ variant = "netlify_backoff"
    /\ request = [method |-> "POST", body |-> Undefined, isBase64Encoded |-> FALSE]
    /\ apiKey = TRUE
    /\ pc = "calling"
    /\ response = Pending

\* fetchWithRetries(apiCall, maxRetries, initialDelay) is called.
RetryInit ==
    /\ maxRetries \in RetryBounds
    /\ initialDelay \in InitialDelays
    /\ state = "Idle"
    /\ i = 0
    /\ calls = 0
    /\ delays = <<>>
    /\ timer = 0
    /\ failures = <<>>
    /\ caught = NoError
    /\ thrown = NoError
    /\ returned = UndefinedResult
    /\ RetryCaller
    /\ ClientIdle
    /\ PoolIdle
    /\ AppIdle

\* let i = 0; i < maxRetries: the loop is entered, or it runs no
\* iteration and the function returns undefined.
RetryEnter ==
    /\ state = "Idle"
    /\ i' = 0
    /\ state' = IF i' < maxRetries THEN "Attempting" ELSE "Succeeded"
    /\ UNCHANGED <<variant, request, apiKey, pc, maxRetries, initialDelay, calls,
                   delays, timer, failures, caught, thrown, returned, response>>
    /\ UNCHANGED <<clientVars, poolVars, appVars>>

\* apiCall() resolves: return result.
RetryResolves ==
    /\ state = "Attempting"
    /\ calls < MaxCalls
    /\ \E r \in RetryResults(calls + 1) : returned' = r
    /\ calls' = calls + 1
    /\ state' = "Succeeded"
    /\ UNCHANGED <<variant, request, apiKey, pc, i, maxRetries, initialDelay,
                   delays, timer, failures, caught, thrown, response>>
    /\ UNCHANGED <<clientVars, poolVars, appVars>>

\* apiCall() rejects and it was not the last attempt: the delay is
\* computed and its timer set.
RetryRejects ==
    /\ state = "Attempting"
    /\ calls < MaxCalls
    /\ ~IsLastAttempt(i, maxRetries)
    /\ \E m \in ErrorMessages :
          /\ caught' = Error(m, calls + 1)
          /\ failures' = Append(failures, m)
    /\ calls' = calls + 1
    /\ timer' = Delay(initialDelay, i)
    /\ state' = "Waiting"
    /\ UNCHANGED <<variant, request, apiKey, pc, i, maxRetries, initialDelay,
                   delays, thrown, returned, response>>
    /\ UNCHANGED <<clientVars, poolVars, appVars>>

\* apiCall() rejects on the last attempt: throw error.
RetryRejectsLast ==
    /\ state = "Attempting"
    /\ calls < MaxCalls
    /\ IsLastAttempt(i, maxRetries)
    /\ \E m \in ErrorMessages :
          /\ thrown' = Error(m, calls + 1)
          /\ failures' = Append(failures, m)
    /\ calls' = calls + 1
    /\ state' = "Failed"
    /\ UNCHANGED <<variant, request, apiKey, pc, i, maxRetries, initialDelay,
                   delays, timer, caught, returned, response>>
    /\ UNCHANGED <<clientVars, poolVars, appVars>>

\* The timer fires: i++ and the test of the loop; when it fails the
\* function returns undefined.
RetryTimerFires ==
    /\ state = "Waiting"
    /\ delays' = Append(delays, timer)
    /\ timer' = 0
    /\ caught' = NoError
    /\ i' = NextIndex(i)
    /\ state' = IF i' < maxRetries THEN "Attempting" ELSE "Succeeded"
    /\ UNCHANGED <<variant, request, apiKey, pc, maxRetries, initialDelay, calls,
                   failures, thrown, returned, response>>
    /\ UNCHANGED <<clientVars, poolVars, appVars>>

RetryNext ==
    \/ RetryEnter
    \/ RetryResolves
    \/ RetryRejects
    \/ RetryRejectsLast
    \/ RetryTimerFires

RetrySpec == RetryInit /\ [][RetryNext]_allVars

\* C21: the delay waited after the k-th failed attempt is
\* initialDelay * 2^(k-1), so the delays strictly increase; a delay is
\* waited only between a failed attempt and the next attempt, none after
\* the final failed attempt and none after a success.
C21_ExponentialBackoff ==
    /\ Len(delays) >= 1 => delays[1] = initialDelay
    /\ \A k \in 1..(Len(delays) - 1) :
          /\ delays[k + 1] = 2 * delays[k]
          /\ delays[k] < delays[k + 1]
    /\ state = "Waiting"
       => /\ Len(failures) = Len(delays) + 1
          /\ Len(failures) <= maxRetries - 1
          /\ timer = IF delays = <<>> THEN initialDelay
                     ELSE 2 * delays[Len(delays)]
    /\ state # "Waiting" => timer = 0
    /\ state = "Attempting" => /\ Len(delays) = Len(failures)
                               /\ Len(delays) = calls
    /\ state = "Succeeded" => Len(delays) = Len(failures)
    /\ state = "Failed" => /\ Len(failures) = maxRetries
                           /\ Len(delays) = maxRetries - 1

C21_Witness ==
    /\ initialDelay = INITIAL_DELAY_MS
    /\ delays = <<1000, 2000>>
    /\ state = "Failed"

\* apiCall() settles, one way or the other.
RetrySettles == RetryResolves \/ RetryRejects \/ RetryRejectsLast

\* The loop runs, every invocation of apiCall settles in the end and
\* every timer fires in the end.
FairRetrySpec ==
    /\ RetrySpec
    /\ WF_allVars(RetryEnter)
    /\ WF_allVars(RetrySettles)
    /\ WF_allVars(RetryTimerFires)

\* C22: when every invocation of the call settles and every timer fires,
\* fetchWithRetries returns or throws in the end, whatever the outcomes
\* of the calls are; it does not attempt or wait forever.
C22_Terminates == <>(state \in {"Succeeded", "Failed"})

C22_Witness ==
    /\ state = "Succeeded"
    /\ calls = 3
    /\ Len(delays) = 2
    /\ returned.attempt = 3

\* The function returned the result of a call that succeeded.
ReturnedResult ==
    /\ calls >= 1
    /\ returned.defined
    /\ returned.attempt = calls
    /\ Len(failures) = calls - 1

\* C23 as stated: whenever fetchWithRetries returns normally, for every
\* maxRetries >= 0, the value returned is the result of an invocation of
\* apiCall that succeeded.
C23_ReturnsResult == state = "Succeeded" => ReturnedResult

\* C23: whenever fetchWithRetries returns normally, for every
\* maxRetries >= 1, the value returned is the result of an invocation of
\* apiCall that succeeded; it never returns without apiCall having been
\* invoked and having succeeded.
C23_ReturnsResultPositive ==
    (state = "Succeeded" /\ maxRetries >= 1) => ReturnedResult

C23_Witness ==
    /\ state = "Succeeded"
    /\ maxRetries = 2
    /\ Len(failures) = 1
    /\ returned = Result(<<"a">>, 2)

-----------------------------------------------------------------------------
(* The order of the checks of the request                                  *)

\* The JSON texts of a body from which a prompt property can be read.
ObjectBodies ==
    PromptBodies \cup {<<"{", "\"prompt\"", ":", "\"\"", "}">>, <<"{", "}">>}

\* The text of the body of a Netlify event, as sent.
SentBody(req) ==
    IF req.isBase64Encoded /\ req.body.s # <<>> THEN Tail(req.body.s) ELSE req.body.s

\* The first of the checks, in the stated order, that the request fails.
FirstFailing(req, key) ==
    CASE req.method = "OPTIONS" -> "preflight"
      [] req.method \notin {"POST", "OPTIONS"} -> "method"
      [] OTHER ->
         IF req.body.t # "string" \/ req.body.s = <<>> THEN "body"
         ELSE IF SentBody(req) \notin ObjectBodies THEN "json"
         ELSE IF ~CarriesPrompt(req) THEN "prompt"
         ELSE IF ~key THEN "key"
         ELSE "none"

\* The status and the message each check answers with.
AnswerOf(check) ==
    CASE check = "method" -> <<405, <<"Method Not Allowed">>>>
      [] check = "body" -> <<400, <<"Request body is missing.">>>>
      [] check = "json" -> <<400, <<"Invalid JSON in request body.">>>>
      [] check = "prompt" -> <<400, <<"Prompt is required.">>>>
      [] check = "key" -> <<500, <<"Server configuration error: API Key missing.">>>>

\* C24: the Netlify handlers check the method, then that a body is
\* present, that it is JSON, that it has a prompt, that the API key is
\* set, and the first check that fails alone determines the response; a
\* request without prompt and without API key is answered 400, and no
\* request answered 400 or 405 causes a call of the API.
C24_ValidationOrder ==
    /\ (Platform(variant) = "netlify" /\ pc # "received")
       => CASE FirstFailing(request, apiKey) = "none" ->
                  pc = "calling" \/ calls >= 1
            [] FirstFailing(request, apiKey) = "preflight" ->
                  /\ response.status = 200
                  /\ calls = 0
            [] OTHER ->
                  /\ pc = "responded"
                  /\ <<response.status, response.error>>
                         = AnswerOf(FirstFailing(request, apiKey))
                  /\ calls = 0
    /\ (Platform(variant) \in {"netlify", "vercel"} /\ pc # "received"
        /\ request.method = "POST" /\ ~CarriesPrompt(request) /\ ~apiKey)
       => response.status = 400
    /\ response.status \in {400, 405} => calls = 0 /\ state = "Idle"

C24_Witness ==
    /\ Platform(variant) = "netlify"
    /\ request.method = "POST"
    /\ request.body = Str(<<"{", "}">>)
    /\ ~apiKey
    /\ response.status = 400
    /\ response.error = <<"Prompt is required.">>

-----------------------------------------------------------------------------
(* Marker text with repeated markers                                       *)

MaxPairs == 2

\* The names of the sections and their markers.
Sections == {"HTML", "CSS", "JS"}

StartOf(sec) ==
    CASE sec = "HTML" -> "HTML_START" [] sec = "CSS" -> "CSS_START" [] OTHER -> "JS_START"

EndOf(sec) ==
    CASE sec = "HTML" -> "HTML_END" [] sec = "CSS" -> "CSS_END" [] OTHER -> "JS_END"

\* What the model writes for one occurrence of a section, as lines: prose,
\* a lone marker, or a START line, content lines and an END line.
PairForms(start, end) ==
    {<<<<"a">>>>,
     <<<<start>>>>,
     <<<<end>>>>,
     <<<<start>>, <<end>>>>,
     <<<<start>>, <<>>, <<end>>>>,
     <<<<start>>, <<"a">>, <<end>>>>,
     <<<<start>>, <<" ", "b">>, <<"c">>, <<end>>>>}

RECURSIVE FormSeqs(_, _, _)
\* The lines of n occurrences, one after the other.
FormSeqs(start, end, n) ==
    IF n = 0 THEN {<<>>}
    ELSE {f \o rest : f \in PairForms(start, end), rest \in FormSeqs(start, end, n - 1)}

\* Answers of the model in which the markers of one section occur up to
\* MaxPairs times.
RepeatedTexts ==
    {Join(ls) : ls \in UNION {FormSeqs(StartOf(sec), EndOf(sec), n) :
                                sec \in Sections, n \in 1..MaxPairs}}

\* A handler with marker extraction awaits the answer of the model.
RepeatedInit ==
    /\ variant \in Variants \ {"netlify_json"}
    /\ request \in {r \in Requests(variant) : ~Validation(variant, r, TRUE).done}
    /\ apiKey = TRUE
    /\ pc = "calling"
    /\ state = "Attempting"
    /\ i = 0
    /\ maxRetries = Attempts(variant)
    /\ initialDelay = IF Invoker(variant) = "backoff" THEN INITIAL_DELAY_MS ELSE 0
    /\ calls = 0
    /\ delays = <<>>
    /\ timer = 0
    /\ failures = <<>>
    /\ caught = NoError
    /\ thrown = NoError
    /\ returned = UndefinedResult
    /\ response = Pending
    /\ ClientIdle
    /\ PoolIdle
    /\ AppIdle

\* The model answers and the handler extracts the sections.
RepeatedReturns ==
    /\ pc = "calling"
    /\ state = "Attempting"
    /\ \E t \in RepeatedTexts :
          /\ returned' = Result(t, calls + 1)
          /\ response' = Complete(variant, returned')
    /\ calls' = calls + 1
    /\ state' = "Succeeded"
    /\ pc' = "responded"
    /\ UNCHANGED <<clientVars, poolVars, appVars>>
    /\ UNCHANGED <<variant, request, apiKey, i, maxRetries, initialDelay, delays,
                   timer, failures, caught, thrown>>

RepeatedNext == RepeatedReturns

RepeatedSpec == RepeatedInit /\ [][RepeatedNext]_allVars

\* The lines between the first START line and the first END line after it,
\* joined and trimmed; empty when there is no such pair.
FirstPair(lines, start, end) ==
    IF ~HasPair(lines, start, end) THEN <<>>
    ELSE LET a == CHOOSE x \in 1..Len(lines) :
                     /\ lines[x] = <<start>>
                     /\ \A y \in 1..(x - 1) : lines[y] # <<start>>
             b == CHOOSE x \in (a + 1)..Len(lines) :
                     /\ lines[x] = <<end>>
                     /\ \A y \in (a + 1)..(x - 1) : lines[y] # <<end>>
         IN  Trim(Join(SubSeq(lines, a + 1, b - 1)))

\* C25: the content captured for a section starts after the first START
\* line and ends at the first END line that follows it: when the markers
\* of a section occur more than once only the content of the first pair
\* is returned.
C25_FirstPairOnly ==
    pc = "responded"
    => /\ response.status = 200
       /\ response.html = Str(FirstPair(Split(returned.text), "HTML_START", "HTML_END"))
       /\ response.css = Str(FirstPair(Split(returned.text), "CSS_START", "CSS_END"))
       /\ response.js = Str(FirstPair(Split(returned.text), "JS_START", "JS_END"))

-----------------------------------------------------------------------------
(* The App component                                                       *)

KeptItems == 9

\* Mutant: nothing is cut off.
SliceWhole(seq, n) == seq

\* seq.slice(0, n)
Slice(seq, n) == SubSeq(seq, 1, IF n < Len(seq) THEN n ELSE Len(seq))

\* JSON.stringify of a history, as the entry of localStorage.
Stringify(h) == [kind |-> "json", value |-> h]

\* An entry that is no JSON: JSON.parse throws.
Corrupt == [kind |-> "text", value |-> <<>>]

\* The effect of the mount: the saved history when there is an entry and
\* it parses, else the empty history of useState.
Load(entry) == IF entry.kind = "json" THEN entry.value ELSE <<>>

OldNames == <<"o1", "o2", "o3", "o4", "o5", "o6", "o7", "o8", "o9", "o10">>

\* The items saved by earlier visits, newest first.
OldItem(k) ==
    [prompt |-> <<OldNames[k]>>,
     code |-> [html |-> OldNames[k], css |-> "c", js |-> "j", fullText |-> "t"]]

StoredHistory(n) == [k \in 1..n |-> OldItem(k)]

\* The numbers of items the saved history holds when the page opens.
StoredLengths == {9, 10}

StoredEntries == {Absent, Corrupt} \cup {Stringify(StoredHistory(n)) : n \in StoredLengths}

\* response.data of a 200 response: with fullText, or from a handler that
\* answers the key text, where fullText is undefined.
CodeData ==
    {[html |-> "h", css |-> "c", js |-> "j", fullText |-> "t"],
     [html |-> "h", css |-> "c", js |-> "j", fullText |-> "undefined"]}

\* { html: "// Error generating code.", css: "", js: "" }
ErrorCode ==
    [html |-> "// Error generating code.", css |-> "", js |-> "", fullText |-> "undefined"]

Views == {"preview", "code"}

Event(name, p, code) == [name |-> name, prompt |-> p, code |-> code]

\* The prompts handleCodeGenerated is called with.
SentPrompts == {<<"a">>, <<"b">>}

MaxGenerations == 3

\* App after its mount: the state of the useState calls, then the effect
\* that loads the saved history.
Mounted ==
    /\ generatedCode = EmptyCode
    /\ currentPrompt = <<>>
    /\ activeView = "preview"
    /\ history = Load(storage)
    /\ event = Event("mount", <<>>, EmptyCode)
    /\ generations = 0

\* PromptInput after its mount.
PromptInputMounted ==
    /\ component \in Components
    /\ prompt = <<>>
    /\ loading = FALSE
    /\ clientError = <<>>
    /\ inFlight = <<>>
    /\ submits = 0
    /\ dropped = 0
    /\ generated = "none"

\* The page is open, with any of the saved histories.
AppInit ==
    /\ storage \in StoredEntries
    /\ Mounted
    /\ PromptInputMounted
    /\ HandlerIdle
    /\ PoolIdle

\* handleCodeGenerated(codeData, prompt), with a setItem that succeeds.
handleCodeGenerated(codeData, p) ==
    /\ generatedCode' = codeData
    /\ currentPrompt' = p
    /\ activeView' = "preview"
    /\ history' = <<[prompt |-> p, code |-> codeData]>> \o Slice(history, KeptItems)
    /\ storage' = Stringify(history')
    /\ event' = Event("handleCodeGenerated", p, codeData)
    /\ generations' = generations + 1

\* What PromptInput passes to onCodeGenerated: the data of a response, or
\* in handleGenerate the placeholder of a failed request.
PassedCode(c) == CodeData \cup (IF c = "handleGenerate" THEN {ErrorCode} ELSE {})

\* PromptInput calls onCodeGenerated.
CodeGenerated ==
    /\ generations < MaxGenerations
    /\ \E p \in SentPrompts : \E data \in PassedCode(component) :
          handleCodeGenerated(data, p)
    /\ UNCHANGED <<vars, clientVars, poolVars>>

\* Mutant: the click leaves the view as it is.
handleHistoryItemClickKeepsView ==
    /\ \E k \in 1..Len(history) :
          /\ generatedCode' = history[k].code
          /\ currentPrompt' = history[k].prompt
          /\ event' = Event("handleHistoryItemClick", history[k].prompt, history[k].code)
    /\ UNCHANGED <<activeView, history, storage, generations>>
    /\ UNCHANGED <<vars, clientVars, poolVars>>

\* handleHistoryItemClick(item), for an item the history panel shows.
handleHistoryItemClick ==
    /\ \E k \in 1..Len(history) :
          /\ generatedCode' = history[k].code
          /\ currentPrompt' = history[k].prompt
          /\ event' = Event("handleHistoryItemClick", history[k].prompt, history[k].code)
    /\ activeView' = "preview"
    /\ UNCHANGED <<history, storage, generations>>
    /\ UNCHANGED <<vars, clientVars, poolVars>>

\* Mutant: the clearing leaves the generated code and the prompt.
clearAllHistoryKeepsCode ==
    /\ Len(history) > 0
    /\ \E confirmed \in BOOLEAN :
          IF confirmed
          THEN /\ history' = <<>>
               /\ storage' = Absent
               /\ activeView' = "preview"
               /\ event' = Event("clearAllHistory", <<>>, EmptyCode)
               /\ UNCHANGED <<generatedCode, currentPrompt>>
          ELSE /\ event' = Event("declined", <<>>, EmptyCode)
               /\ UNCHANGED <<history, storage, generatedCode, currentPrompt, activeView>>
    /\ UNCHANGED generations
    /\ UNCHANGED <<vars, clientVars, poolVars>>

\* clearAllHistory: the button is rendered while the history is not
\* empty; window.confirm returns the choice of the user.
clearAllHistory ==
    /\ Len(history) > 0
    /\ \E confirmed \in BOOLEAN :
          IF confirmed
          THEN /\ history' = <<>>
               /\ storage' = Absent
               /\ generatedCode' = EmptyCode
               /\ currentPrompt' = <<>>
               /\ activeView' = "preview"
               /\ event' = Event("clearAllHistory", <<>>, EmptyCode)
          ELSE /\ event' = Event("declined", <<>>, EmptyCode)
               /\ UNCHANGED <<history, storage, generatedCode, currentPrompt, activeView>>
    /\ UNCHANGED generations
    /\ UNCHANGED <<vars, clientVars, poolVars>>

\* The buttons Code and Preview.
setActiveView ==
    /\ \E v \in Views : activeView' = v
    /\ event' = Event("setActiveView", <<>>, EmptyCode)
    /\ UNCHANGED <<generatedCode, currentPrompt, history, storage, generations>>
    /\ UNCHANGED <<vars, clientVars, poolVars>>

AppNext ==
    \/ CodeGenerated
    \/ handleHistoryItemClick
    \/ clearAllHistory
    \/ setActiveView

AppSpec == AppInit /\ [][AppNext]_allVars

-----------------------------------------------------------------------------
(* PromptInput and App on one page                                         *)

\* The page is open; nothing or one item is saved.
PageInit ==
    /\ storage \in {Absent, Stringify(StoredHistory(1))}
    /\ Mounted
    /\ PromptInputMounted
    /\ HandlerIdle
    /\ PoolIdle

\* The promise of axios.post settles and the rest of handleSubmit or
\* handleGenerate runs, with the prompt of its closure.
PageResponseArrives ==
    /\ \E n \in 1..Len(inFlight) : \E reply \in Replies :
          /\ inFlight' = Without(inFlight, n)
          /\ IF reply = "code"
             THEN /\ \E data \in CodeData : handleCodeGenerated(data, inFlight[n])
                  /\ generated' = "code"
                  /\ prompt' = IF component = "handleSubmit" THEN <<>> ELSE prompt
                  /\ UNCHANGED clientError
             ELSE /\ clientError' = ReplyError(reply)
                  /\ UNCHANGED prompt
                  /\ IF component = "handleGenerate"
                     THEN /\ handleCodeGenerated(ErrorCode, inFlight[n])
                          /\ generated' = "errorCode"
                     ELSE UNCHANGED <<generated, appVars>>
    /\ loading' = FALSE
    /\ UNCHANGED <<component, submits, dropped>>
    /\ UNCHANGED <<vars, poolVars>>

PageNext ==
    \/ SubmitAction
    \/ TypePrompt
    \/ ClickSuggestion
    \/ PageResponseArrives
    \/ handleHistoryItemClick
    \/ clearAllHistory
    \/ setActiveView

PageSpec == PageInit /\ [][PageNext]_allVars

-----------------------------------------------------------------------------
(* The history                                                             *)

\* C26: the history never holds more than 10 items; a generation puts its
\* item first, keeps the items before it in their order and drops the
\* oldest one only when the history already held 10.
C26_HistoryBound ==
    /\ [](Len(history) <= 10)
    /\ [][generations' = generations + 1
          => /\ history'[1] = [prompt |-> currentPrompt', code |-> generatedCode']
             /\ Tail(history') = IF Len(history) = 10
                                 THEN SubSeq(history, 1, Len(history) - 1)
                                 ELSE history]_allVars

C26_Witness ==
    /\ generations = 2
    /\ Len(history) = 10
    /\ history[1].prompt = <<"a">>
    /\ history[2].prompt = <<"b">>
    /\ history[10] = OldItem(8)

-----------------------------------------------------------------------------
(* The end of a request on the page                                        *)

\* C27: when the POST fails, the generated code, the current prompt, the
\* history (and the view, the saved history and the typed prompt) are what
\* they were and only the error message and the loading flag change; when
\* it succeeds the prompt input is cleared and one item is added to the
\* history.
C27_FailureKeepsResults ==
    [][Len(inFlight') < Len(inFlight)
       => IF clientError' # <<>>
          THEN /\ UNCHANGED <<generatedCode, currentPrompt, history, storage,
                              activeView, prompt>>
               /\ ~loading'
          ELSE /\ prompt' = <<>>
               /\ Len(history') = Len(history) + 1
               /\ Tail(history') = history
               /\ history'[1].prompt = inFlight[1]]_allVars

-----------------------------------------------------------------------------
(* The loading flag                                                        *)

\* Every request posted is answered or fails in the end.
FairClientSpec == ClientSpec /\ WF_allVars(ResponseArrives)

\* A submit action reaches the handler: the control was not disabled.
Handled == submits' = submits + 1 /\ dropped' = dropped

\* C28: loading is true exactly while a request is in flight; after a
\* submit with a prompt that is not blank loading becomes false again,
\* whether the request succeeds or fails; a submit with an empty or blank
\* prompt sets the error 'Please enter a prompt.', sends no request and
\* leaves loading false.
C28_LoadingLifecycle ==
    /\ [](loading <=> inFlight # <<>>)
    /\ [](loading => <>(~loading))
    /\ [][(Handled /\ Trim(prompt) # <<>>)
          => /\ loading'
             /\ inFlight' = Append(inFlight, prompt)]_allVars
    /\ [][(Handled /\ \A n \in 1..Len(prompt) : prompt[n] \in {" ", "\n"})
          => /\ clientError' = <<"Please enter a prompt.">>
             /\ inFlight' = inFlight
             /\ ~loading /\ ~loading']_allVars

C28_Witness ==
    /\ clientError = <<"Please enter a prompt.">>
    /\ prompt = <<" ">>
    /\ ~loading
    /\ inFlight = <<>>
    /\ generated = "code"
    /\ dropped = 0
    /\ submits = 2

-----------------------------------------------------------------------------
(* Clearing the history                                                    *)

\* C29: when the user confirms, clearAllHistory empties the history,
\* removes the saved entry, resets the generated code to empty strings,
\* clears the current prompt and sets the view to preview; when the user
\* declines, the history, the saved entry, the generated code, the
\* current prompt and the view are what they were.
C29_AllOrNothing ==
    /\ [](event.name = "clearAllHistory"
          => /\ history = <<>>
             /\ storage = Absent
             /\ generatedCode = [html |-> "", css |-> "", js |-> "", fullText |-> ""]
             /\ currentPrompt = <<>>
             /\ activeView = "preview")
    /\ [][event'.name = "declined"
          => UNCHANGED <<history, storage, generatedCode, currentPrompt,
                         activeView>>]_allVars

C29_Witness ==
    /\ event.name = "clearAllHistory"
    /\ generations = 2
    /\ history = <<>>
    /\ storage = Absent

\* The user declined while code and a view of it were shown.
C29_DeclinedWitness ==
    /\ event.name = "declined"
    /\ generatedCode.html = "h"
    /\ Len(history) = 10

-----------------------------------------------------------------------------
(* The view and the selection                                              *)

\* C30: the view is always preview or code; after a generation and after
\* a click of a history item the view is preview and the code and the
\* prompt on display are those of the new result or of the clicked item;
\* a click of a history item leaves the history and the saved history as
\* they were.
C30_ViewAndSelection ==
    /\ [](activeView \in {"preview", "code"})
    /\ [](event.name \in {"handleCodeGenerated", "handleHistoryItemClick"}
          => /\ activeView = "preview"
             /\ generatedCode = event.code
             /\ currentPrompt = event.prompt)
    /\ [][generations' = generations + 1
          => /\ event'.name = "handleCodeGenerated"
             /\ history'[1] = [prompt |-> event'.prompt, code |-> event'.code]]_allVars
    /\ [][event'.name = "handleHistoryItemClick"
          => /\ UNCHANGED <<history, storage>>
             /\ \E k \in 1..Len(history) :
                   history[k] = [prompt |-> event'.prompt, code |-> event'.code]]_allVars

C30_Witness ==
    /\ event.name = "handleHistoryItemClick"
    /\ generations = 1
    /\ currentPrompt = <<"o3">>
    /\ generatedCode.html = "o3"
    /\ activeView = "preview"
    /\ history[1].prompt = <<"b">>
    /\ Len(history) = 10

====
